---- MODULE Spec2Model ----
(***************************************************************************)
(* Model of romba's ingestion core:                                        *)
(*   - archive/depot_root.go : per-shard size / bloom filter accounting    *)
(*     (adjustSize) and its persistence (writeSizes,                       *)
(*     writeBloomFilterWithBackup);                                        *)
(*   - db/db.go : the refresh pipeline (Refresh, refreshMaster,            *)
(*     refreshWorker).                                                     *)
(* Two specifications share the module: SpecDepot and SpecRefresh.  Each   *)
(* leaves the other subsystem's variables unchanged.                       *)
(***************************************************************************)
EXTENDS Integers, Sequences, FiniteSets, TLC

(***************************************************************************)
(* Bounds                                                                  *)
(***************************************************************************)
NumRoots     == 2      \* shards in depot.roots
NumAdjusters == 2      \* goroutines calling adjustSize concurrently
MaxSize      == 1      \* cap on a shard's size (guards the counter)
MaxDelta     == 2      \* deltas range over -MaxDelta..MaxDelta
NumIds       == 1      \* distinct non-empty content identifiers
FilterBits   == 1      \* m, the bloom filter's bit count

Roots     == 1..NumRoots
Adjusters == 1..NumAdjusters
Deltas    == (0 - MaxDelta)..MaxDelta
EmptyId   == 0                     \* sha1Hex == ""
Ids       == 0..NumIds             \* EmptyId and the non-empty identifiers

NoOwner   == 0 - 1                 \* mutex not held
WS        == 0                     \* the goroutine running writeSizes
Corrupt   == 0 - 1                 \* size file whose content is not the decimal size

VARIABLES
    \* ---- depotRoot fields, one per shard (depot_root.go:12-23)
    size, touched, bloomReady, bf, lock,
    \* ---- files of each shard
    sizeFile, bloomFile, backupFile,
    \* ---- the writeSizes goroutine
    wsPc, wsIdx, wsErrSize, wsErrBloom, wsDirty, wsPre, wsRenamed, wsCount,
    wsFailed,
    \* ---- the adjustSize goroutines
    adjPc, adjRoot, adjClamped

depotVars == <<size, touched, bloomReady, bf, lock, sizeFile, bloomFile,
               backupFile, wsPc, wsIdx, wsErrSize, wsErrBloom, wsDirty, wsPre,
               wsRenamed, wsCount, wsFailed, adjPc, adjRoot, adjClamped>>

VARIABLES
    \* ---- Refresh and the Work call it ends with
    rfPc, orphan, rfResult, cancelled, walkErr, filesLeft,
    \* ---- the index (RomDB) and its batches (RomBatch)
    nBatches, batchSize, batchOpen, batchPending, committed, dbFlushes,
    \* ---- who has called each batch's methods, and how often it was closed
    batchUsers, batchCloses,
    \* ---- the refresh workers
    wPc, romBatch, wRet, wTrace, wStartSize, wIndexSize, wStartCommitted,
    \* ---- what has happened so far in the run
    everParsed, everIndexed, lateIndex, lastWalk

refreshVars == <<rfPc, orphan, rfResult, cancelled, walkErr, filesLeft,
                 nBatches, batchSize, batchOpen, batchPending, committed,
                 dbFlushes, batchUsers, batchCloses, wPc, romBatch, wRet, wTrace, wStartSize,
                 wIndexSize, wStartCommitted, everParsed, everIndexed,
                 lateIndex, lastWalk>>

walkVars   == <<rfPc, orphan, rfResult, cancelled, walkErr, filesLeft>>
indexVars  == <<nBatches, batchSize, batchOpen, batchPending, committed, dbFlushes,
                 batchUsers, batchCloses>>
workerVars == <<wPc, romBatch, wRet, wTrace, wStartSize, wIndexSize, wStartCommitted>>
eventVars  == <<everParsed, everIndexed, lateIndex, lastWalk>>

VARIABLES
    \* ---- one ParseDat call: the token stream the lexer delivers and what
    \* ---- the call returned
    textSrc, textToks, textPc, textOut

textVars == <<textSrc, textToks, textPc, textOut>>

VARIABLES
    \* ---- the source being read, the hash of hr and the reader lr
    srcRest, srcGot, srcEOF, hSum, lr,
    \* ---- one ParseDat call reading its input
    datPc, datOut,
    \* ---- one ParseXml call
    xmlPc, xmlBuild, xmlDat, xmlIn, xmlOut

readVars == <<srcRest, srcGot, srcEOF, hSum, lr>>
datVars  == <<datPc, datOut>>
xmlVars  == <<xmlPc, xmlBuild, xmlDat, xmlIn, xmlOut>>

VARIABLES
    \* ---- one stringValue2Bytes call
    hexIn, hexPc, hexOut,
    \* ---- a generation file, the last call on it (for a read, with the
    \* ---- call before it) and the number of calls so far
    genFile, genLast, genCalls

hexVars == <<hexIn, hexPc, hexOut>>
genVars == <<genFile, genLast, genCalls>>

VARIABLES
    \* ---- one Parse call: the file, the handle isXML sniffs with, what it
    \* ---- found, the handle of the parse and where Parse went
    pfFile, pfPath, pfPc, pfSniff, pfIsXML, pfHandle, pfOut,
    \* ---- one splitIntoArgs call
    argLine, argPc, argOut,
    \* ---- adjustSize statement by statement: the sum an adjuster has
    \* ---- formed, and what the calls so far amount to in the order they
    \* ---- read the size: with the floor at 0, and as a plain sum
    adjSum, serial, plain

concVars  == <<adjSum, serial, plain>>
parseVars == <<pfFile, pfPath, pfPc, pfSniff, pfIsXML, pfHandle, pfOut>>
argVars   == <<argLine, argPc, argOut>>

\* the variables of the parser, generation-file and command-line calls
libVars == <<textVars, readVars, datVars, xmlVars, hexVars, genVars, parseVars,
             argVars, concVars>>

\* what the steps of one of them leave alone
exceptText == <<depotVars, refreshVars, readVars, datVars, xmlVars, hexVars, genVars,
               parseVars, argVars, concVars>>
exceptDat  == <<depotVars, refreshVars, textVars, xmlVars, hexVars, genVars,
               parseVars, argVars, concVars>>
exceptXml  == <<depotVars, refreshVars, textVars, datVars, hexVars, genVars,
               parseVars, argVars, concVars>>
exceptHex  == <<depotVars, refreshVars, textVars, readVars, datVars, xmlVars, genVars,
               parseVars, argVars, concVars>>
exceptGen  == <<depotVars, refreshVars, textVars, readVars, datVars, xmlVars, hexVars,
               parseVars, argVars, concVars>>
exceptParse == <<depotVars, refreshVars, textVars, readVars, datVars, xmlVars, hexVars,
                genVars, argVars, concVars>>
exceptArgs == <<depotVars, refreshVars, textVars, readVars, datVars, xmlVars, hexVars,
               genVars, parseVars, concVars>>
exceptConc == <<refreshVars, textVars, readVars, datVars, xmlVars, hexVars, genVars,
               parseVars, argVars>>

(***************************************************************************)
(* Bloom filter (github.com/willf/bloom), one hash function over           *)
(* FilterBits bits.  Distinct identifiers may share a bit.                 *)
(***************************************************************************)
EmptyFilter == [i \in 1..FilterBits |-> 0]

Hash(id) == (id % FilterBits) + 1

Add(f, id) == [f EXCEPT ![Hash(id)] = 1]

Test(f, id) == f[Hash(id)] = 1

\* bf.WriteTo: the bits, in order.
WriteTo(f) == [i \in 1..FilterBits |-> f[i]]

\* a file on disk: absent, or present with some bytes.
Absent == [exists |-> FALSE, bytes |-> <<>>]

File(bs) == [exists |-> TRUE, bytes |-> bs]

\* bf.ReadFrom succeeds only on a whole serialized filter.
Complete(file) == file.exists /\ Len(file.bytes) = FilterBits

Prefix(s, n) == [i \in 1..n |-> s[i]]

\* loadBloomFilter: no file -> nil error, filter untouched; otherwise the
\* result of ReadFrom on the primary file.  The backup is never consulted.
loadBloomFilter(r, f) ==
    IF ~bloomFile[r].exists THEN [err |-> FALSE, bf |-> f]
    ELSE IF Complete(bloomFile[r])
         THEN [err |-> FALSE, bf |-> [i \in 1..FilterBits |-> bloomFile[r].bytes[i]]]
         ELSE [err |-> TRUE, bf |-> f]

(***************************************************************************)
(* Initial state: a fresh depot.  Every shard is loaded and clean, its size *)
(* file holds its size (0), no bloom file exists yet; one shard's filter    *)
(* has been declared ready, the others' not yet.                           *)
(***************************************************************************)
InitShards(ready) ==
    /\ size = [r \in Roots |-> 0]
    /\ touched = [r \in Roots |-> FALSE]
    /\ bloomReady = [r \in Roots |-> r \in ready]
    /\ bf = [r \in Roots |-> EmptyFilter]
    /\ lock = [r \in Roots |-> NoOwner]
    /\ sizeFile = size
    /\ bloomFile = [r \in Roots |-> Absent]
    /\ backupFile = [r \in Roots |-> Absent]
    /\ wsPc = "idle"
    /\ wsIdx = 1
    /\ wsErrSize = FALSE
    /\ wsErrBloom = FALSE
    /\ wsDirty = FALSE
    /\ wsPre = Absent
    /\ wsRenamed = FALSE
    /\ wsCount = NumRoots
    /\ wsFailed = {}
    /\ adjPc = [p \in Adjusters |-> "idle"]
    /\ adjRoot = [p \in Adjusters |-> 1]
    /\ adjClamped = [p \in Adjusters |-> FALSE]

InitDepot == \E k \in Roots : InitShards({k})

(***************************************************************************)
(* adjustSize (depot_root.go:107-123)                                      *)
(***************************************************************************)
\* a mutex that lets a goroutine in while another holds it
UnlockedAlways(r) == TRUE

\* dr.Lock() returns once no goroutine holds the shard's mutex
Unlocked(r) == lock[r] = NoOwner

\* dr.Lock()
adjustSizeLock(p, r) ==
    /\ adjPc[p] = "idle"
    /\ Unlocked(r)
    /\ lock' = [lock EXCEPT ![r] = p]
    /\ adjPc' = [adjPc EXCEPT ![p] = "locked"]
    /\ adjRoot' = [adjRoot EXCEPT ![p] = r]
    /\ UNCHANGED <<size, touched, bloomReady, bf, sizeFile, bloomFile,
                   backupFile, wsPc, wsIdx, wsErrSize, wsErrBloom, wsDirty,
                   wsPre, wsRenamed, wsCount, wsFailed, adjClamped>>
    /\ UNCHANGED <<refreshVars, libVars>>

\* Clamp without the floor: the size is left as the sum
ClampNoFloor(s) == s

\* dr.size += delta; if dr.size < 0 { dr.size = 0 }
Clamp(s) == IF s < 0 THEN 0 ELSE s

\* BloomAfter without the readiness test
BloomAfterIgnoringReady(r, id) ==
    IF id # EmptyId THEN Add(bf[r], id) ELSE bf[r]

\* if sha1Hex != "" && dr.bloomReady { dr.bf.Add(sha1Hex) }
BloomAfter(r, id) ==
    IF id # EmptyId /\ bloomReady[r] THEN Add(bf[r], id) ELSE bf[r]

\* the critical section, atomic under the shard's mutex
adjustSize(p, delta, id) ==
    LET r == adjRoot[p] IN
    /\ adjPc[p] = "locked"
    /\ size[r] + delta <= MaxSize
    /\ size' = [size EXCEPT ![r] = Clamp(size[r] + delta)]
    /\ bf' = [bf EXCEPT ![r] = BloomAfter(r, id)]
    /\ touched' = [touched EXCEPT ![r] = TRUE]
    /\ adjClamped' = [adjClamped EXCEPT ![p] = (size[r] + delta < 0)]
    /\ adjPc' = [adjPc EXCEPT ![p] = "unlock"]
    /\ UNCHANGED <<bloomReady, lock, sizeFile, bloomFile, backupFile, wsPc,
                   wsIdx, wsErrSize, wsErrBloom, wsDirty, wsPre, wsRenamed,
                   wsCount, wsFailed, adjRoot>>
    /\ UNCHANGED <<refreshVars, libVars>>

\* defer dr.Unlock()
adjustSizeUnlock(p) ==
    /\ adjPc[p] = "unlock"
    /\ lock' = [lock EXCEPT ![adjRoot[p]] = NoOwner]
    /\ adjPc' = [adjPc EXCEPT ![p] = "idle"]
    /\ adjClamped' = [adjClamped EXCEPT ![p] = FALSE]
    /\ adjRoot' = [adjRoot EXCEPT ![p] = 1]
    /\ UNCHANGED <<size, touched, bloomReady, bf, sizeFile, bloomFile,
                   backupFile, wsPc, wsIdx, wsErrSize, wsErrBloom, wsDirty,
                   wsPre, wsRenamed, wsCount, wsFailed>>
    /\ UNCHANGED <<refreshVars, libVars>>

(***************************************************************************)
(* writeSizeFile(dr.path, dr.size): persists the decimal size.  A failure  *)
(* either leaves the file alone (create failed) or leaves it without a     *)
(* valid size (write failed after the truncating create).                  *)
(***************************************************************************)
writeSizeFile(r, ok, created) ==
    IF ok THEN size[r] ELSE IF created THEN Corrupt ELSE sizeFile[r]

adjVars == <<adjPc, adjRoot, adjClamped>>

(***************************************************************************)
(* writeSizes (depot_root.go:84-105)                                       *)
(***************************************************************************)
\* a call starts: for _, dr := range depot.roots
writeSizesStart ==
    /\ wsPc = "idle"
    /\ wsPc' = "lock"
    /\ wsIdx' = 1
    /\ wsCount' = 0
    /\ wsFailed' = {}
    /\ UNCHANGED <<size, touched, bloomReady, bf, lock, sizeFile, bloomFile,
                   backupFile, wsErrSize, wsErrBloom, wsDirty, wsPre,
                   wsRenamed, adjVars>>
    /\ UNCHANGED <<refreshVars, libVars>>

\* AfterLock that persists the shard whether it is dirty or not
AfterLockAlways(r) == "size"

\* where the loop body goes after dr.Lock(): if dr.touched { ... }
AfterLock(r) == IF touched[r] THEN "size" ELSE "unlock"

\* dr.Lock(); if dr.touched
writeSizesLock ==
    /\ wsPc = "lock"
    /\ Unlocked(wsIdx)
    /\ lock' = [lock EXCEPT ![wsIdx] = WS]
    /\ wsDirty' = touched[wsIdx]
    /\ wsCount' = wsCount + 1
    /\ wsPc' = AfterLock(wsIdx)
    /\ UNCHANGED <<size, touched, bloomReady, bf, sizeFile, bloomFile,
                   backupFile, wsIdx, wsErrSize, wsErrBloom, wsPre, wsRenamed,
                   wsFailed, adjVars>>
    /\ UNCHANGED <<refreshVars, libVars>>

\* TouchedAfterSize that clears the flag whatever the write returned
TouchedAfterSizeAlwaysClear(r, ok) == FALSE

\* dr.touched after the size write: cleared on success only
TouchedAfterSize(r, ok) == IF ok THEN FALSE ELSE touched[r]

\* where the loop body goes after the size write: if dr.bloomReady { ... }
AfterSize(r) == IF bloomReady[r] THEN "exists" ELSE "unlock"

\* err := writeSizeFile(dr.path, dr.size); if err != nil {log} else {touched = false}
writeSizesSize(ok, created) ==
    LET r == wsIdx IN
    /\ wsPc = "size"
    /\ sizeFile' = [sizeFile EXCEPT ![r] = writeSizeFile(r, ok, created)]
    /\ touched' = [touched EXCEPT ![r] = TouchedAfterSize(r, ok)]
    /\ wsErrSize' = ~ok
    /\ wsPc' = AfterSize(r)
    /\ UNCHANGED <<size, bloomReady, bf, lock, bloomFile, backupFile, wsIdx,
                   wsErrBloom, wsDirty, wsPre, wsRenamed, wsCount, wsFailed, adjVars>>
    /\ UNCHANGED <<refreshVars, libVars>>

\* TouchedAfterBloomError that only logs
TouchedAfterBloomErrorKept(r) == touched[r]

\* dr.touched after writeBloomFilterWithBackup returned an error
TouchedAfterBloomError(r) == TRUE

\* BloomFailed that leaves the loop body at once, the shard still locked
BloomFailedNoUnlock(r) ==
    /\ touched' = [touched EXCEPT ![r] = TouchedAfterBloomError(r)]
    /\ wsErrBloom' = TRUE
    /\ wsPc' = "lock"

\* if err != nil { dr.touched = true; log }
BloomFailed(r) ==
    /\ touched' = [touched EXCEPT ![r] = TouchedAfterBloomError(r)]
    /\ wsErrBloom' = TRUE
    /\ wsPc' = "unlock"

(***************************************************************************)
(* writeBloomFilterWithBackup (depot_root.go:57-82), one step per system   *)
(* call.  Every step may fail; the process stopping between two steps is   *)
(* the behaviour that takes no further step.                               *)
(***************************************************************************)
\* exists, err := PathExists(bfFilePath)
bfPathExists(ok) ==
    LET r == wsIdx IN
    /\ wsPc = "exists"
    /\ wsPre' = bloomFile[r]
    /\ wsRenamed' = FALSE
    /\ IF ok
       THEN /\ wsPc' = IF bloomFile[r].exists THEN "rename" ELSE "create"
            /\ UNCHANGED <<touched, wsErrBloom>>
       ELSE BloomFailed(r)
    /\ UNCHANGED <<size, bloomReady, bf, lock, sizeFile, bloomFile,
                   backupFile, wsIdx, wsErrSize, wsDirty, wsCount, wsFailed, adjVars>>
    /\ UNCHANGED <<refreshVars, libVars>>

\* RenameTarget when the primary was re-created before being moved away
RenameTargetTruncated(r) == File(<<>>)

\* the backup file after os.Rename(bfFilePath, backupBfFilePath)
RenameTarget(r) == bloomFile[r]

\* err := os.Rename(bfFilePath, backupBfFilePath)
bfRename(ok) ==
    LET r == wsIdx IN
    /\ wsPc = "rename"
    /\ IF ok
       THEN /\ backupFile' = [backupFile EXCEPT ![r] = RenameTarget(r)]
            /\ bloomFile' = [bloomFile EXCEPT ![r] = Absent]
            /\ wsRenamed' = TRUE
            /\ wsPc' = "create"
            /\ UNCHANGED <<touched, wsErrBloom>>
       ELSE /\ BloomFailed(r)
            /\ UNCHANGED <<backupFile, bloomFile, wsRenamed>>
    /\ UNCHANGED <<size, bloomReady, bf, lock, sizeFile, wsIdx, wsErrSize,
                   wsDirty, wsPre, wsCount, wsFailed, adjVars>>
    /\ UNCHANGED <<refreshVars, libVars>>

\* file, err := os.Create(bfFilePath): truncates or creates
bfCreate(ok) ==
    LET r == wsIdx IN
    /\ wsPc = "create"
    /\ IF ok
       THEN /\ bloomFile' = [bloomFile EXCEPT ![r] = File(<<>>)]
            /\ wsPc' = "write"
            /\ UNCHANGED <<touched, wsErrBloom>>
       ELSE /\ BloomFailed(r)
            /\ UNCHANGED bloomFile
    /\ UNCHANGED <<size, bloomReady, bf, lock, sizeFile, backupFile, wsIdx,
                   wsErrSize, wsDirty, wsPre, wsRenamed, wsCount, wsFailed, adjVars>>
    /\ UNCHANGED <<refreshVars, libVars>>

\* _, err = bf.WriteTo(file): n < FilterBits bytes reach the file on failure
bfWriteTo(n) ==
    LET r == wsIdx IN
    /\ wsPc = "write"
    /\ bloomFile' = [bloomFile EXCEPT ![r] = File(Prefix(WriteTo(bf[r]), n))]
    /\ IF n = FilterBits
       THEN /\ wsPc' = "unlock"
            /\ UNCHANGED <<touched, wsErrBloom>>
       ELSE BloomFailed(r)
    /\ UNCHANGED <<size, bloomReady, bf, lock, sizeFile, backupFile, wsIdx,
                   wsErrSize, wsDirty, wsPre, wsRenamed, wsCount, wsFailed, adjVars>>
    /\ UNCHANGED <<refreshVars, libVars>>

\* the loop's next position after a shard: the next shard, or the end
NextPc(i) == IF i < NumRoots THEN "lock" ELSE "idle"

\* dr.Unlock(), and on to the next shard
writeSizesUnlock ==
    /\ wsPc = "unlock"
    /\ lock' = [lock EXCEPT ![wsIdx] = NoOwner]
    /\ wsPc' = NextPc(wsIdx)
    /\ wsIdx' = IF wsIdx < NumRoots THEN wsIdx + 1 ELSE 1
    /\ wsErrSize' = FALSE
    /\ wsErrBloom' = FALSE
    /\ wsDirty' = FALSE
    /\ wsPre' = Absent
    /\ wsRenamed' = FALSE
    /\ wsFailed' = IF wsIdx = NumRoots THEN {}
                  ELSE IF wsErrSize \/ wsErrBloom THEN wsFailed \cup {wsIdx}
                  ELSE wsFailed
    /\ UNCHANGED <<size, touched, bloomReady, bf, sizeFile, bloomFile,
                   backupFile, wsCount, adjVars>>
    /\ UNCHANGED <<refreshVars, libVars>>

DepotStep ==
    \/ \E p \in Adjusters, r \in Roots : adjustSizeLock(p, r)
    \/ \E p \in Adjusters, delta \in Deltas, id \in Ids : adjustSize(p, delta, id)
    \/ \E p \in Adjusters : adjustSizeUnlock(p)
    \/ writeSizesStart
    \/ writeSizesLock
    \/ \E ok \in BOOLEAN, created \in BOOLEAN : writeSizesSize(ok, created)
    \/ \E ok \in BOOLEAN : bfPathExists(ok)
    \/ \E ok \in BOOLEAN : bfRename(ok)
    \/ \E ok \in BOOLEAN : bfCreate(ok)
    \/ \E n \in 0..FilterBits : bfWriteTo(n)
    \/ writeSizesUnlock

(***************************************************************************)
(* The refresh pipeline (db/db.go)                                         *)
(***************************************************************************)
NumWorkers   == 2      \* refreshMaster.numWorkers
MaxFiles     == 3      \* paths the walk meets in one run

MaxBatchSize == 10485760

Workers  == 1..NumWorkers
NoBatch  == 0                                    \* pw.romBatch == nil
DatBytes == {MaxBatchSize \div 2, MaxBatchSize}  \* bytes one IndexDat adds to a batch

\* the paths the walk meets, as sequences of characters
Paths ==
    {<<"a", ".", "d", "a", "t">>, <<"d", "/", "b", ".", "x", "m", "l">>,
     <<"a", ".", "D", "A", "T">>, <<"a", ".", "X", "m", "l">>,
     <<"a", ".", "t", "x", "t">>, <<"d", "a", "t">>,
     <<"a", ".", "d", "a", "t", ".", "b", "a", "k">>,
     <<"d", ".", "x", "m", "l", "/", "a">>, <<"a", ".", "x", "m", "l", "/">>}

NoPath == <<>>

InitRefresh ==
    /\ rfPc = "start"
    /\ orphan = "none"
    /\ rfResult = "none"
    /\ cancelled = FALSE
    /\ walkErr = FALSE
    /\ filesLeft = MaxFiles
    /\ nBatches = 0
    /\ batchSize = [b \in Workers |-> 0]
    /\ batchOpen = [b \in Workers |-> FALSE]
    /\ batchPending = [b \in Workers |-> 0]
    /\ committed = 0
    /\ dbFlushes = 0
    /\ batchUsers = [b \in Workers |-> {}]
    /\ batchCloses = [b \in Workers |-> 0]
    /\ wPc = [w \in Workers |-> "none"]
    /\ romBatch = [w \in Workers |-> NoBatch]
    /\ wRet = [w \in Workers |-> "nil"]
    /\ wTrace = [w \in Workers |-> <<>>]
    /\ wStartSize = [w \in Workers |-> 0]
    /\ wIndexSize = [w \in Workers |-> 0]
    /\ wStartCommitted = [w \in Workers |-> 0]
    /\ everParsed = FALSE
    /\ everIndexed = FALSE
    /\ lateIndex = FALSE
    /\ lastWalk = [path |-> NoPath, handed |-> FALSE]

(***************************************************************************)
(* Refresh (db.go:169-182)                                                 *)
(***************************************************************************)
\* Refresh that goes on to Work whatever OrphanDats returned
AfterOrphanDatsAlwaysWork(ok) == "spawn"

\* where Refresh goes after OrphanDats: on to worker.Work, or out
AfterOrphanDats(ok) == IF ok THEN "spawn" ELSE "done"

\* err := romdb.OrphanDats(); if err != nil { return "", err }
RefreshOrphanDats(ok) ==
    /\ rfPc = "start"
    /\ orphan' = IF ok THEN "ok" ELSE "err"
    /\ rfResult' = IF ok THEN rfResult ELSE "error"
    /\ rfPc' = AfterOrphanDats(ok)
    /\ UNCHANGED <<cancelled, walkErr, filesLeft, indexVars, workerVars, eventVars>>
    /\ UNCHANGED <<depotVars, libVars>>

(***************************************************************************)
(* refreshMaster (db.go:139-167)                                           *)
(***************************************************************************)
\* filepath.Ext: the suffix of the path from the last dot of its last
\* element, empty when that element has no dot
Ext(path) ==
    LET dots == {i \in 1..Len(path) :
                    /\ path[i] = "."
                    /\ \A j \in i..Len(path) : path[j] # "/"}
    IN  IF dots = {} THEN <<>>
        ELSE SubSeq(path, CHOOSE i \in dots : \A j \in dots : j <= i, Len(path))

\* Accept that takes the extension in either letter case
AcceptAnyCase(path) ==
    Ext(path) \in {<<".", "d", "a", "t">>, <<".", "x", "m", "l">>,
                   <<".", "D", "A", "T">>, <<".", "X", "m", "l">>}

\* ext := filepath.Ext(path); return ext == ".dat" || ext == ".xml"
Accept(path) ==
    Ext(path) = <<".", "d", "a", "t">> \/ Ext(path) = <<".", "x", "m", "l">>

\* NewWorker: &refreshWorker{romBatch: pm.romdb.StartBatch()}; Work creates
\* a master that starts one batch and hands it to every later worker
WorkerBatchShared(w, fresh) == IF w = 1 THEN fresh ELSE romBatch[1]

\* the romBatch field of the worker NewWorker builds:
\* &refreshWorker{pm: pm, romBatch: pm.romdb.StartBatch()} -- the batch its
\* own StartBatch call returned
WorkerBatch(w, fresh) == fresh

\* the workers in index order, each StartBatch returning a new batch
NewWorker(w) ==
    /\ rfPc = "spawn"
    /\ wPc[w] = "none"
    /\ \A v \in Workers : v < w => wPc[v] # "none"
    /\ nBatches' = nBatches + 1
    /\ batchOpen' = [batchOpen EXCEPT ![nBatches + 1] = TRUE]
    /\ romBatch' = [romBatch EXCEPT ![w] = WorkerBatch(w, nBatches + 1)]
    /\ wPc' = [wPc EXCEPT ![w] = "idle"]
    /\ rfPc' = IF w = NumWorkers THEN "walk" ELSE "spawn"
    /\ UNCHANGED <<orphan, rfResult, cancelled, walkErr, filesLeft, batchSize,
                   batchPending, committed, dbFlushes, batchUsers,
                   batchCloses, wRet, wTrace,
                   wStartSize, wIndexSize, wStartCommitted, eventVars>>
    /\ UNCHANGED <<depotVars, libVars>>

\* FinishUp that returns without flushing the index
FinishUpNoFlush(n) == n

\* FinishUp (db.go:164-167): pm.romdb.Flush(); return nil.  Maps the index's
\* flush count before the call to the count after it.
FinishUp(n) == n + 1

(***************************************************************************)
(* worker.Work, the walk and its barrier (package worker, not in src/)     *)
(***************************************************************************)
\* the walk still hands out files
Admitting == rfPc = "walk" /\ filesLeft > 0 /\ ~cancelled /\ ~walkErr

\* the walk meets a path Accept rejects
WalkSkip(path) ==
    /\ Admitting
    /\ ~Accept(path)
    /\ filesLeft' = filesLeft - 1
    /\ lastWalk' = [path |-> path, handed |-> FALSE]
    /\ UNCHANGED <<rfPc, orphan, rfResult, cancelled, walkErr, indexVars,
                   workerVars, everParsed, everIndexed, lateIndex>>
    /\ UNCHANGED <<depotVars, libVars>>

\* the walk hands an accepted path to a free worker, which enters Process
WalkDispatch(w, path) ==
    /\ Admitting
    /\ Accept(path)
    /\ wPc[w] = "idle"
    /\ filesLeft' = filesLeft - 1
    /\ wPc' = [wPc EXCEPT ![w] = "check"]
    /\ wTrace' = [wTrace EXCEPT ![w] = <<>>]
    /\ wRet' = [wRet EXCEPT ![w] = "nil"]
    /\ wStartSize' = [wStartSize EXCEPT ![w] = batchSize[romBatch[w]]]
    /\ wStartCommitted' = [wStartCommitted EXCEPT ![w] = committed]
    /\ lastWalk' = [path |-> path, handed |-> TRUE]
    /\ UNCHANGED <<rfPc, orphan, rfResult, cancelled, walkErr, indexVars,
                   romBatch, wIndexSize, everParsed, everIndexed, lateIndex>>
    /\ UNCHANGED <<depotVars, libVars>>

\* the operator cancels the walk
Cancel ==
    /\ rfPc = "walk"
    /\ ~cancelled
    /\ cancelled' = TRUE
    /\ UNCHANGED <<rfPc, orphan, rfResult, walkErr, filesLeft, indexVars,
                   workerVars, eventVars>>
    /\ UNCHANGED <<depotVars, libVars>>

\* no more files will be handed out
WalkEnded == rfPc = "walk" /\ (filesLeft = 0 \/ cancelled \/ walkErr)

(***************************************************************************)
(* refreshWorker.Process (db.go:118-131)                                   *)
(***************************************************************************)
\* the threshold test with > for >=
NeedsFlushStrict(sz) == sz > MaxBatchSize

\* pw.romBatch.Size() >= MaxBatchSize
NeedsFlush(sz) == sz >= MaxBatchSize

ProcessCheck(w) ==
    /\ wPc[w] = "check"
    /\ wPc' = [wPc EXCEPT ![w] = IF NeedsFlush(batchSize[romBatch[w]])
                                  THEN "flush" ELSE "parse"]
    /\ batchUsers' = [batchUsers EXCEPT ![romBatch[w]] = @ \cup {w}]
    /\ UNCHANGED <<walkVars, nBatches, batchSize, batchOpen, batchPending,
                   committed, dbFlushes, batchCloses, romBatch, wRet, wTrace,
                   wStartSize,
                   wIndexSize, wStartCommitted, eventVars>>
    /\ UNCHANGED <<depotVars, libVars>>

\* Process that carries on after a failed Flush
AfterFlushIgnoringError(ok) == "parse"

\* where Process goes after Flush returned
AfterFlush(ok) == IF ok THEN "parse" ELSE "ret"

\* err := pw.romBatch.Flush(); if err != nil { return fmt.Errorf(...) }
\* A successful Flush commits the batch's writes and resets its size.
ProcessFlush(w, ok) ==
    LET b == romBatch[w] IN
    /\ wPc[w] = "flush"
    /\ IF ok
       THEN /\ committed' = committed + batchPending[b]
            /\ batchPending' = [batchPending EXCEPT ![b] = 0]
            /\ batchSize' = [batchSize EXCEPT ![b] = 0]
       ELSE UNCHANGED <<committed, batchPending, batchSize>>
    /\ wTrace' = [wTrace EXCEPT ![w] = Append(@, IF ok THEN "flush" ELSE "flushErr")]
    /\ wRet' = [wRet EXCEPT ![w] = IF ok THEN @ ELSE "failed to flush"]
    /\ wPc' = [wPc EXCEPT ![w] = AfterFlush(ok)]
    /\ batchUsers' = [batchUsers EXCEPT ![b] = @ \cup {w}]
    /\ UNCHANGED <<walkVars, nBatches, batchOpen, dbFlushes, batchCloses, romBatch,
                   wStartSize, wIndexSize, wStartCommitted, eventVars>>
    /\ UNCHANGED <<depotVars, libVars>>

\* where Process goes after parser.Parse returned
AfterParse(ok) == IF ok THEN "index" ELSE "ret"

\* dat, sha1Bytes, err := parser.Parse(path); if err != nil { return err }
ProcessParse(w, ok) ==
    /\ wPc[w] = "parse"
    /\ everParsed' = TRUE
    /\ wTrace' = [wTrace EXCEPT ![w] = Append(@, IF ok THEN "parse" ELSE "parseErr")]
    /\ wRet' = [wRet EXCEPT ![w] = IF ok THEN @ ELSE "parse error"]
    /\ wPc' = [wPc EXCEPT ![w] = AfterParse(ok)]
    /\ UNCHANGED <<walkVars, indexVars, romBatch, wStartSize, wIndexSize,
                   wStartCommitted, everIndexed, lateIndex, lastWalk>>
    /\ UNCHANGED <<depotVars, libVars>>

\* what Process returns after IndexDat returned
IndexResult(ok) == IF ok THEN "nil" ELSE "index error"

\* return pw.romBatch.IndexDat(dat, sha1Bytes)
ProcessIndexDat(w, ok, bytes) ==
    LET b == romBatch[w] IN
    /\ wPc[w] = "index"
    /\ everIndexed' = TRUE
    /\ lateIndex' = (lateIndex \/ dbFlushes > 0)
    /\ wIndexSize' = [wIndexSize EXCEPT ![w] = batchSize[b]]
    /\ IF ok
       THEN /\ batchSize' = [batchSize EXCEPT ![b] = @ + bytes]
            /\ batchPending' = [batchPending EXCEPT ![b] = @ + 1]
       ELSE UNCHANGED <<batchSize, batchPending>>
    /\ wTrace' = [wTrace EXCEPT ![w] = Append(@, IF ok THEN "index" ELSE "indexErr")]
    /\ wRet' = [wRet EXCEPT ![w] = IndexResult(ok)]
    /\ wPc' = [wPc EXCEPT ![w] = "ret"]
    /\ batchUsers' = [batchUsers EXCEPT ![b] = @ \cup {w}]
    /\ UNCHANGED <<walkVars, nBatches, batchOpen, committed, dbFlushes,
                   batchCloses, romBatch, wStartSize, wStartCommitted, everParsed,
                   lastWalk>>
    /\ UNCHANGED <<depotVars, libVars>>

\* Process has returned: Work takes the result; an error ends the walk
ProcessReturn(w) ==
    /\ wPc[w] = "ret"
    /\ walkErr' = (walkErr \/ wRet[w] # "nil")
    /\ wPc' = [wPc EXCEPT ![w] = "idle"]
    /\ wTrace' = [wTrace EXCEPT ![w] = <<>>]
    /\ wRet' = [wRet EXCEPT ![w] = "nil"]
    /\ wStartSize' = [wStartSize EXCEPT ![w] = 0]
    /\ wIndexSize' = [wIndexSize EXCEPT ![w] = 0]
    /\ wStartCommitted' = [wStartCommitted EXCEPT ![w] = 0]
    /\ UNCHANGED <<rfPc, orphan, rfResult, cancelled, filesLeft, indexVars,
                   romBatch, eventVars>>
    /\ UNCHANGED <<depotVars, libVars>>

(***************************************************************************)
(* refreshWorker.Close (db.go:133-137), called by Work once the walk has   *)
(* ended and the worker is idle.  Closing a batch commits its writes.      *)
(***************************************************************************)
WorkerClose(w, ok) ==
    LET b == romBatch[w] IN
    /\ WalkEnded
    /\ wPc[w] = "idle"
    /\ batchOpen' = [batchOpen EXCEPT ![b] = FALSE]
    /\ committed' = IF ok THEN committed + batchPending[b] ELSE committed
    /\ batchPending' = [batchPending EXCEPT ![b] = 0]
    /\ batchSize' = [batchSize EXCEPT ![b] = 0]
    /\ romBatch' = [romBatch EXCEPT ![w] = NoBatch]
    /\ wPc' = [wPc EXCEPT ![w] = "closed"]
    /\ batchUsers' = [batchUsers EXCEPT ![b] = @ \cup {w}]
    /\ batchCloses' = [batchCloses EXCEPT ![b] = @ + 1]
    /\ UNCHANGED <<walkVars, nBatches, dbFlushes, wRet, wTrace, wStartSize,
                   wIndexSize, wStartCommitted, eventVars>>
    /\ UNCHANGED <<depotVars, libVars>>

\* every worker has exited: Work calls master.FinishUp and returns
WorkFinishUp ==
    /\ WalkEnded
    /\ \A w \in Workers : wPc[w] = "closed"
    /\ dbFlushes' = FinishUp(dbFlushes)
    /\ rfResult' = IF walkErr THEN "error" ELSE "ok"
    /\ rfPc' = "done"
    /\ UNCHANGED <<orphan, cancelled, walkErr, filesLeft, nBatches, batchSize,
                   batchOpen, batchPending, committed, batchUsers,
                   batchCloses, workerVars, eventVars>>
    /\ UNCHANGED <<depotVars, libVars>>

RefreshStep ==
    \/ \E ok \in BOOLEAN : RefreshOrphanDats(ok)
    \/ \E w \in Workers : NewWorker(w)
    \/ \E path \in Paths : WalkSkip(path)
    \/ \E w \in Workers, path \in Paths : WalkDispatch(w, path)
    \/ Cancel
    \/ \E w \in Workers : ProcessCheck(w)
    \/ \E w \in Workers, ok \in BOOLEAN : ProcessFlush(w, ok)
    \/ \E w \in Workers, ok \in BOOLEAN : ProcessParse(w, ok)
    \/ \E w \in Workers, ok \in BOOLEAN, bytes \in DatBytes : ProcessIndexDat(w, ok, bytes)
    \/ \E w \in Workers : ProcessReturn(w)
    \/ \E w \in Workers, ok \in BOOLEAN : WorkerClose(w, ok)
    \/ WorkFinishUp

(***************************************************************************)
(* Values of the parser (part_000).  A string is a sequence of             *)
(* one-character strings; a byte slice is nil or a sequence of bytes.      *)
(***************************************************************************)
NilBytes == [isNil |-> TRUE, bytes |-> <<>>]

Bytes(bs) == [isNil |-> FALSE, bytes |-> bs]

Min(S) == CHOOSE x \in S : \A y \in S : x <= y

Max(S) == CHOOSE x \in S : \A y \in S : x >= y

HexChars == <<"0", "1", "2", "3", "4", "5", "6", "7", "8", "9",
              "a", "b", "c", "d", "e", "f">>

UpperHex == <<"A", "B", "C", "D", "E", "F">>

\* strings.Repeat(c, n)
Repeat(c, n) == [k \in 1..n |-> c]

\* unicode.IsSpace on the characters used here
IsSpace(c) == c \in {" ", "\t", "\n", "\r"}

\* strings.TrimSpace: the string without its leading and trailing white space
TrimSpace(s) ==
    LET keep == {k \in 1..Len(s) : ~IsSpace(s[k])} IN
    IF keep = {} THEN <<>> ELSE SubSeq(s, Min(keep), Max(keep))

\* encoding/hex fromHexChar: the digit's value, 16 for any other character
fromHexChar(c) ==
    IF \E k \in 1..16 : HexChars[k] = c
    THEN (CHOOSE k \in 1..16 : HexChars[k] = c) - 1
    ELSE IF \E k \in 1..6 : UpperHex[k] = c
         THEN (CHOOSE k \in 1..6 : UpperHex[k] = c) + 9
         ELSE 16

\* encoding/hex Decode: the pairs of hex digits before the first bad
\* character, as bytes, and whether the whole input was well-formed hex
Decode(s) ==
    LET pairs == Len(s) \div 2
        bad   == {k \in 1..pairs : \/ fromHexChar(s[2 * k - 1]) > 15
                                   \/ fromHexChar(s[2 * k]) > 15}
        n     == IF bad = {} THEN pairs ELSE Min(bad) - 1
    IN  [bytes |-> [k \in 1..n |-> fromHexChar(s[2 * k - 1]) * 16
                                   + fromHexChar(s[2 * k])],
         err   |-> (bad # {} \/ Len(s) % 2 = 1)]

\* hex.DecodeString as built by Go 1.10 and later: src[:n], err -- on an
\* error the bytes decoded before it, in a slice that is not nil
\* (d is what Decode returned)
Decoded(d) == [val |-> Bytes(d.bytes), err |-> d.err]

DecodeString(s) == Decoded(Decode(s))

\* hex.DecodeString as built by Go up to 1.9: nil, err on an error
DecodedGo19(d) == IF d.err THEN [val |-> NilBytes, err |-> TRUE] ELSE Decoded(d)

DecodeStringGo19(s) == DecodedGo19(Decode(s))

\* the value of a decimal digit string
RECURSIVE DecimalValue(_)
DecimalValue(s) ==
    IF s = <<>> THEN 0
    ELSE DecimalValue(SubSeq(s, 1, Len(s) - 1)) * 10 + fromHexChar(s[Len(s)])

IsDigits(s) == s # <<>> /\ \A k \in 1..Len(s) : fromHexChar(s[k]) < 10

\* strconv.Atoi: an optional sign and at least one decimal digit (the
\* numbers used here are far from the int range)
Atoi(s) ==
    LET signed == s # <<>> /\ s[1] \in {"+", "-"}
        digits == IF signed THEN Tail(s) ELSE s
    IN  IF IsDigits(digits)
        THEN [val |-> IF signed /\ s[1] = "-" THEN 0 - DecimalValue(digits)
                      ELSE DecimalValue(digits),
              err |-> FALSE]
        ELSE [val |-> 0, err |-> TRUE]

\* stringValue2Int (part_000:67-72) accepting every string as 0
stringValue2IntLenient(input) ==
    [val |-> IF Atoi(input).err THEN 0 ELSE Atoi(input).val, err |-> FALSE]

\* stringValue2Int (part_000:67-72)
stringValue2Int(input) ==
    IF input = <<"-">> THEN [val |-> 0, err |-> FALSE] ELSE Atoi(input)

\* stringValue2Bytes (part_000:74-86) that decodes the input as it came
stringValue2BytesUntrimmed(input, expectedLength) ==
    IF input = <<"-">> \/ input = <<>>
    THEN [val |-> NilBytes, err |-> FALSE]
    ELSE DecodeString(IF Len(input) < expectedLength
                      THEN Repeat("0", expectedLength - Len(input)) \o input
                      ELSE input)

\* stringValue2Bytes (part_000:74-86)
stringValue2Bytes(input, expectedLength) ==
    IF input = <<"-">> \/ input = <<>>
    THEN [val |-> NilBytes, err |-> FALSE]
    ELSE LET trimmed == TrimSpace(input) IN
         DecodeString(IF Len(trimmed) < expectedLength
                      THEN Repeat("0", expectedLength - Len(trimmed)) \o trimmed
                      ELSE trimmed)

(***************************************************************************)
(* The token stream.  The lexer is not part of these sources: the parser   *)
(* sees it as nextItem(), delivering typed items that end with an itemEOF  *)
(* or an itemError; the keyword types come after itemValue.                *)
(***************************************************************************)
itemError        == 0
itemEOF          == 1
itemOpenBrace    == 2
itemCloseBrace   == 3
itemQuotedString == 4
itemValue        == 5
itemClrMamePro   == 6
itemGame         == 7
itemRom          == 8
itemName         == 9
itemDescription  == 10
itemSize         == 11
itemCrc          == 12
itemMd5          == 13
itemSha1         == 14

Item(typ, val) == [typ |-> typ, val |-> val]

\* p.ll.nextItem(): the item at position pos; once the stream has ended its
\* last item (itemEOF or itemError) is all there is
nextItem(toks, pos) == IF pos <= Len(toks) THEN toks[pos] ELSE toks[Len(toks)]

NoRom  == [Name |-> <<>>, Size |-> 0, Crc |-> NilBytes, Md5 |-> NilBytes,
           Sha1 |-> NilBytes]                        \* &types.Rom{}

NoGame == [Name |-> <<>>, Description |-> <<>>, Roms |-> <<>>]   \* &types.Game{}

NoDat  == [Name |-> <<>>, Description |-> <<>>, Games |-> <<>>]  \* &types.Dat{}

\* match (part_000:261-266)
match(i, typ) == IF i.typ = typ THEN "" ELSE "expected token"

\* lexError (part_000:141-143)
lexError(i) == "lexer error"

\* the string a value item stands for: i.val, or i.val[1 : len(i.val)-1]
\* of a quoted string
ItemString(i) ==
    IF i.typ = itemQuotedString THEN SubSeq(i.val, 2, Len(i.val) - 1) ELSE i.val

\* what a consume function returns: the value, the error ("" for nil) and
\* the next position of the stream
Consumed(c, msg, pos) ==
    [val |-> c.val, err |-> IF c.err THEN msg ELSE "", pos |-> pos]

\* consumeStringValue (part_000:53-65); pos is the next position to read
consumeStringValue(toks, pos) ==
    LET i == nextItem(toks, pos) IN
    IF i.typ = itemQuotedString \/ i.typ = itemValue \/ i.typ > itemValue
    THEN [val |-> ItemString(i), err |-> "", pos |-> pos + 1]
    ELSE [val |-> <<>>, err |-> "expected quoted string or value", pos |-> pos + 1]

\* consumeIntegerValue (part_000:88-97)
consumeIntegerValue(toks, pos) ==
    LET i == nextItem(toks, pos) IN
    IF i.typ \in {itemValue, itemQuotedString}
    THEN Consumed(stringValue2Int(ItemString(i)), "invalid syntax", pos + 1)
    ELSE [val |-> 0, err |-> "expected value", pos |-> pos + 1]

\* consumeHexBytes (part_000:99-108)
consumeHexBytes(toks, pos, expectedLength) ==
    LET i == nextItem(toks, pos) IN
    IF i.typ \in {itemValue, itemQuotedString}
    THEN Consumed(stringValue2Bytes(ItemString(i), expectedLength),
                  "invalid byte", pos + 1)
    ELSE [val |-> NilBytes, err |-> "expected value", pos |-> pos + 1]

\* a statement's result: what it built (nil if isNil), the error ("" for
\* nil) and the next position of the stream
Result(val, isNil, err, pos) ==
    [val |-> val, isNil |-> isNil, err |-> err, pos |-> pos]

\* what romStmt returns when a field's value could not be consumed:
\* (nil, err) for the name and the size, (nil, nil) for a hash
FieldFailure(typ, c) ==
    IF typ \in {itemMd5, itemCrc, itemSha1}
    THEN Result(NoRom, TRUE, "", c.pos)
    ELSE Result(NoRom, TRUE, c.err, c.pos)

\* r with the field of the keyword typ set
WithField(r, typ, val) ==
    IF typ = itemName THEN [r EXCEPT !.Name = val]
    ELSE IF typ = itemDescription THEN [r EXCEPT !.Description = val]
    ELSE IF typ = itemSize THEN [r EXCEPT !.Size = val]
    ELSE IF typ = itemMd5 THEN [r EXCEPT !.Md5 = val]
    ELSE IF typ = itemCrc THEN [r EXCEPT !.Crc = val]
    ELSE [r EXCEPT !.Sha1 = val]

RECURSIVE romFields(_, _, _), romField(_, _, _, _)
\* one case of romStmt's switch (part_000:198-222), c being what the
\* consume function returned
romField(toks, r, typ, c) ==
    IF c.err # "" THEN FieldFailure(typ, c)
    ELSE romFields(toks, c.pos, WithField(r, typ, c.val))

\* the loop of romStmt (part_000:196-232), the item at pos being read next
romFields(toks, pos, r) ==
    LET i == nextItem(toks, pos) IN
    IF i.typ = itemCloseBrace THEN Result(r, FALSE, "", pos + 1)
    ELSE IF i.typ = itemEOF
         THEN Result(NoRom, TRUE, "unexpected end of input", pos + 1)
    ELSE IF i.typ = itemError THEN Result(NoRom, TRUE, lexError(i), pos + 1)
    ELSE IF i.typ = itemName
         THEN romField(toks, r, itemName, consumeStringValue(toks, pos + 1))
    ELSE IF i.typ = itemSize
         THEN romField(toks, r, itemSize, consumeIntegerValue(toks, pos + 1))
    ELSE IF i.typ = itemMd5
         THEN romField(toks, r, itemMd5, consumeHexBytes(toks, pos + 1, 32))
    ELSE IF i.typ = itemCrc
         THEN romField(toks, r, itemCrc, consumeHexBytes(toks, pos + 1, 8))
    ELSE IF i.typ = itemSha1
         THEN romField(toks, r, itemSha1, consumeHexBytes(toks, pos + 1, 40))
    ELSE romFields(toks, pos + 1, r)

\* romStmt (part_000:187-233), called with the rom keyword already read
romStmt(toks, pos) ==
    IF match(nextItem(toks, pos), itemOpenBrace) # ""
    THEN Result(NoRom, TRUE, "expected token", pos + 1)
    ELSE romFields(toks, pos + 1, NoRom)

RECURSIVE gameFields(_, _, _), gameField(_, _, _, _), gameRom(_, _, _)
\* the name and description cases of gameStmt's switch (part_000:156-165)
gameField(toks, g, typ, c) ==
    IF c.err # "" THEN Result(NoGame, TRUE, c.err, c.pos)
    ELSE gameFields(toks, c.pos, WithField(g, typ, c.val))

\* the rom case of gameStmt's switch (part_000:166-174), rom being what
\* romStmt returned
gameRom(toks, g, rom) ==
    IF rom.err # "" THEN Result(NoGame, TRUE, rom.err, rom.pos)
    ELSE gameFields(toks, rom.pos,
                    IF rom.isNil THEN g ELSE [g EXCEPT !.Roms = Append(@, rom.val)])

\* the loop of gameStmt (part_000:154-184)
gameFields(toks, pos, g) ==
    LET i == nextItem(toks, pos) IN
    IF i.typ = itemCloseBrace THEN Result(g, FALSE, "", pos + 1)
    ELSE IF i.typ = itemEOF
         THEN Result(NoGame, TRUE, "unexpected end of input", pos + 1)
    ELSE IF i.typ = itemError THEN Result(NoGame, TRUE, lexError(i), pos + 1)
    ELSE IF i.typ \in {itemName, itemDescription}
         THEN gameField(toks, g, i.typ, consumeStringValue(toks, pos + 1))
    ELSE IF i.typ = itemRom THEN gameRom(toks, g, romStmt(toks, pos + 1))
    ELSE gameFields(toks, pos + 1, g)

\* gameStmt (part_000:145-185)
gameStmt(toks, pos) ==
    IF match(nextItem(toks, pos), itemOpenBrace) # ""
    THEN Result(NoGame, TRUE, "expected token", pos + 1)
    ELSE gameFields(toks, pos + 1, NoGame)

RECURSIVE datFields(_, _, _), datField(_, _, _, _)
\* the cases of datStmt's switch (part_000:119-128)
datField(toks, d, typ, c) ==
    IF c.err # "" THEN Result(d, FALSE, c.err, c.pos)
    ELSE datFields(toks, c.pos, WithField(d, typ, c.val))

\* the loop of datStmt (part_000:117-138), filling in p.d
datFields(toks, pos, d) ==
    LET i == nextItem(toks, pos) IN
    IF i.typ = itemCloseBrace THEN Result(d, FALSE, "", pos + 1)
    ELSE IF i.typ = itemEOF
         THEN Result(d, FALSE, "unexpected end of input", pos + 1)
    ELSE IF i.typ = itemError THEN Result(d, FALSE, lexError(i), pos + 1)
    ELSE IF i.typ \in {itemName, itemDescription}
         THEN datField(toks, d, i.typ, consumeStringValue(toks, pos + 1))
    ELSE datFields(toks, pos + 1, d)

\* datStmt (part_000:110-139)
datStmt(toks, pos, d) ==
    IF match(nextItem(toks, pos), itemOpenBrace) # ""
    THEN Result(d, FALSE, "expected token", pos + 1)
    ELSE datFields(toks, pos + 1, d)

RECURSIVE parse(_, _, _), parseDat(_, _), parseGame(_, _, _)
\* the clrmamepro case of parse's switch (part_000:240-244)
parseDat(toks, dat) ==
    IF dat.err # "" THEN dat ELSE parse(toks, dat.pos, dat.val)

\* the game case of parse's switch (part_000:245-252)
parseGame(toks, d, game) ==
    IF game.err # "" THEN Result(d, FALSE, game.err, game.pos)
    ELSE parse(toks, game.pos,
               IF game.isNil THEN d ELSE [d EXCEPT !.Games = Append(@, game.val)])

\* parse (part_000:235-259): p.d after the top-level loop, and its error
parse(toks, pos, d) ==
    LET i == nextItem(toks, pos) IN
    IF i.typ = itemEOF THEN Result(d, FALSE, "", pos + 1)
    ELSE IF i.typ = itemError THEN Result(d, FALSE, lexError(i), pos + 1)
    ELSE IF i.typ = itemClrMamePro THEN parseDat(toks, datStmt(toks, pos + 1, d))
    ELSE IF i.typ = itemGame THEN parseGame(toks, d, gameStmt(toks, pos + 1))
    ELSE parse(toks, pos + 1, d)

\* Dat.Normalize (package types, not part of these sources): a
\* canonicalization of the catalog that keeps its games, their roms and the
\* roms' hash fields as parsed
Normalize(d) == d

\* what ParseDat's error message is made of:
\* fmt.Errorf("error in file %s on line %d: %v", path, p.ll.lineNumber(), err)
DatError(path, line, err) ==
    [text |-> "error in file %s on line %d: %v", path |-> <<path>>,
     line |-> <<line>>, cause |-> err]

NoError == [text |-> "", path |-> <<>>, line |-> <<>>, cause |-> ""]

\* p.ll.lineNumber() when parse has returned at position pos (the lexer is
\* taken to deliver one item per line)
lineNumber(toks, pos) == IF pos - 1 <= Len(toks) THEN pos - 1 ELSE Len(toks)

\* what ParseDat returns, p being what parse returned (part_000:279-284)
DatResult(toks, path, p) ==
    IF p.err # ""
    THEN [dat |-> NoDat, isNil |-> TRUE,
          err |-> DatError(path, lineNumber(toks, p.pos), p.err)]
    ELSE [dat |-> Normalize(p.val), isNil |-> FALSE, err |-> NoError]

\* ParseDat (part_000:268-285) on the items lex() delivers for the file at
\* path
ParseDat(toks, path) == DatResult(toks, path, parse(toks, 1, NoDat))

(***************************************************************************)
(* The clrmamepro documents ParseDat is run on: an optional header and up  *)
(* to MaxGames game statements holding up to MaxRoms rom statements, as    *)
(* the items the lexer delivers for them, one item per line.  A document   *)
(* may be cut short by the end of the input or by a lexical error, or lack *)
(* the opening brace of one statement.                                     *)
(***************************************************************************)
MaxGames == 2      \* game statements of one document
MaxRoms  == 3      \* rom statements of one document

Keyword(typ) == Item(typ, <<"k", "w">>)

Value(s) == Item(itemValue, s)

Quoted(s) == Item(itemQuotedString, <<"\"">> \o s \o <<"\"">>)

OpenBrace == Item(itemOpenBrace, <<"(">>)

CloseBrace == Item(itemCloseBrace, <<")">>)

EOF == Item(itemEOF, <<>>)

LexicalError == Item(itemError, <<"b", "a", "d">>)

\* the bodies of the rom statements: well-formed, with a crc that is not
\* hex before its name, with an md5 that is not hex as its last field, with
\* a size that is no integer, and with a keyword for a name
RomGood == <<Keyword(itemName), Quoted(<<"a">>), Keyword(itemSize), Value(<<"7">>),
             Keyword(itemCrc), Value(<<"a", "1">>)>>

RomBadCrc == <<Keyword(itemCrc), Value(<<"z", "z">>), Keyword(itemName), Value(<<"b">>)>>

RomBadMd5 == <<Keyword(itemName), Value(<<"c">>), Keyword(itemSha1), Value(<<"-">>),
               Keyword(itemMd5), Quoted(<<"1", "g">>)>>

RomBadSize == <<Keyword(itemName), Value(<<"d">>), Keyword(itemSize), Value(<<"x">>),
                Keyword(itemCrc), Value(<<"a", "1">>)>>

RomPlain == <<Keyword(itemName), Keyword(itemRom), Keyword(itemSize), Value(<<"-">>)>>

RomBodies == {RomGood, RomBadCrc, RomBadMd5, RomBadSize, RomPlain}

TextPath == "roms.dat"

RECURSIVE Flatten(_)
Flatten(ss) == IF ss = <<>> THEN <<>> ELSE Head(ss) \o Flatten(Tail(ss))

RomItems(body) == <<Keyword(itemRom), OpenBrace>> \o body \o <<CloseBrace>>

GameItems(src, g) ==
    <<Keyword(itemGame), OpenBrace, Keyword(itemName), Value(<<"g", HexChars[g + 1]>>)>>
    \o Flatten([k \in 1..Len(src.roms) |->
                   IF src.gameOf[k] = g THEN RomItems(src.roms[k]) ELSE <<>>])
    \o <<CloseBrace>>

HeaderItems ==
    <<Keyword(itemClrMamePro), OpenBrace, Keyword(itemName), Quoted(<<"h">>),
      Keyword(itemDescription), Value(<<"d">>), CloseBrace>>

\* the items of the whole document, ending with itemEOF
DocItems(src) ==
    (IF src.header THEN HeaderItems ELSE <<>>)
    \o Flatten([g \in 1..src.games |-> GameItems(src, g)])
    \o <<EOF>>

NoDefect == [kind |-> "none", at |-> 0]

\* the items the lexer delivers: the document's, cut before position `at'
\* by the end of input or a lexical error, or without the item at `at'
Items(src) ==
    LET all == DocItems(src)
        d == src.defect
    IN  IF d.kind = "eof" THEN SubSeq(all, 1, d.at - 1) \o <<EOF>>
        ELSE IF d.kind = "error" THEN SubSeq(all, 1, d.at - 1) \o <<LexicalError>>
        ELSE IF d.kind = "nobrace"
             THEN SubSeq(all, 1, d.at - 1) \o SubSeq(all, d.at + 1, Len(all))
        ELSE all

Defects(all) ==
    {NoDefect}
    \cup {[kind |-> k, at |-> a] : k \in {"eof", "error"}, a \in 1..(Len(all) - 1)}
    \cup {[kind |-> "nobrace", at |-> a] : a \in {b \in 1..Len(all) : all[b] = OpenBrace}}

TextIdle ==
    /\ textSrc = [header |-> FALSE, games |-> 0, roms |-> <<>>, gameOf |-> <<>>,
                  defect |-> NoDefect]
    /\ textToks = <<EOF>>
    /\ textPc = "idle"
    /\ textOut = [dat |-> NoDat, isNil |-> TRUE, err |-> NoError]

\* a document has been chosen and lexed; the larger documents are whole
InitText ==
    /\ \E header \in BOOLEAN, games \in 0..MaxGames, n \in 0..MaxRoms :
         \E roms \in [1..n -> RomBodies], gameOf \in [1..n -> 1..games] :
            /\ \A k \in 1..(n - 1) : gameOf[k] <= gameOf[k + 1]
            /\ LET doc == [header |-> header, games |-> games, roms |-> roms,
                           gameOf |-> gameOf, defect |-> NoDefect]
               IN  \E d \in (IF n < MaxRoms THEN Defects(DocItems(doc)) ELSE {NoDefect}) :
                      /\ textSrc = [doc EXCEPT !.defect = d]
                      /\ textToks = Items([doc EXCEPT !.defect = d])
    /\ textPc = "input"
    /\ textOut = [dat |-> NoDat, isNil |-> TRUE, err |-> NoError]

\* dat, sha1Bytes, err := ParseDat(file, path)
TextParseDat ==
    /\ textPc = "input"
    /\ textOut' = ParseDat(textToks, TextPath)
    /\ textPc' = "done"
    /\ UNCHANGED <<textSrc, textToks>>
    /\ UNCHANGED exceptText

TextStep == TextParseDat

(***************************************************************************)
(* The readers of ParseDat and ParseXml (part_000:287-315).  The source    *)
(* delivers the file's bytes in Read calls of any size; it may hand over   *)
(* its last bytes together with io.EOF.                                    *)
(***************************************************************************)
MaxBytes == 3      \* bytes of the file being read

FileBytes == {"\n", "x"}

Files == UNION {[1..n -> FileBytes] : n \in 0..MaxBytes}

\* sha1: the digest stands for the bytes written to the hash, in order
Sum(written) == written

Newlines(buf) == Cardinality({k \in 1..Len(buf) : buf[k] = "\n"})

\* hashingReader.Read (part_000:292-298): the bytes written to r.h once the
\* inner Read has returned buf[:n] and err
hashingReaderRead(h, buf, err) == IF err = "" THEN h \o buf ELSE h

\* lineCountingReader.Read (part_000:305-315).  The receiver is a value: r
\* is a copy of the caller's reader, the newlines are counted in r.line and
\* the copy is gone when Read returns; the caller's reader is as before.
lineCountingReaderRead(caller, buf, err) ==
    LET r == [line |-> caller.line + (IF err = "" THEN Newlines(buf) ELSE 0)] IN
    [r |-> r, lr |-> caller]

ReadIdle ==
    /\ srcRest = <<>>
    /\ srcGot = <<>>
    /\ srcEOF = FALSE
    /\ hSum = <<>>
    /\ lr = [line |-> 0]

\* a file has been opened; hr := hashingReader{h: sha1.New()} and
\* lr := lineCountingReader{ir: hr}
InitRead ==
    /\ srcRest \in Files
    /\ srcGot = <<>>
    /\ srcEOF = FALSE
    /\ hSum = <<>>
    /\ lr = [line |-> 0]

\* one Read of the source through the readers: n bytes, with io.EOF if eof
Read(n, eof, counting) ==
    LET buf == SubSeq(srcRest, 1, n)
        err == IF eof THEN "EOF" ELSE ""
    IN  /\ ~srcEOF
        /\ n <= Len(srcRest)
        /\ eof => n = Len(srcRest)
        /\ ~eof => n > 0
        /\ srcRest' = SubSeq(srcRest, n + 1, Len(srcRest))
        /\ srcGot' = srcGot \o buf
        /\ srcEOF' = eof
        /\ hSum' = hashingReaderRead(hSum, buf, err)
        /\ lr' = IF counting THEN lineCountingReaderRead(lr, buf, err).lr ELSE lr

(***************************************************************************)
(* ParseDat's reading (part_000:268-285): the lexer reads through hr up to *)
(* the end of the input, unless it stops at a lexical error before.        *)
(***************************************************************************)
DatIdle ==
    /\ datPc = "idle"
    /\ datOut = [isNil |-> TRUE, sha1 |-> <<>>, err |-> NoError]

InitDat ==
    /\ datPc = "lex"
    /\ datOut = [isNil |-> TRUE, sha1 |-> <<>>, err |-> NoError]

\* the lexer reads on
DatRead(n, eof) ==
    /\ datPc = "lex"
    /\ Read(n, eof, FALSE)
    /\ UNCHANGED <<datPc, datOut>>
    /\ UNCHANGED exceptDat

\* err := p.parse() failed: return nil, nil, fmt.Errorf(...)
DatFail ==
    /\ datPc = "lex"
    /\ datOut' = [isNil |-> TRUE, sha1 |-> <<>>,
                  err |-> DatError(TextPath, Newlines(srcGot) + 1, "lexer error")]
    /\ datPc' = "done"
    /\ UNCHANGED readVars
    /\ UNCHANGED exceptDat

\* the lexer has met the end of the input and parse returned nil:
\* return p.d, hr.h.Sum(nil), nil
DatReturn ==
    /\ datPc = "lex"
    /\ srcEOF
    /\ datOut' = [isNil |-> FALSE, sha1 |-> Sum(hSum), err |-> NoError]
    /\ datPc' = "done"
    /\ UNCHANGED readVars
    /\ UNCHANGED exceptDat

DatStep ==
    \/ \E n \in 0..MaxBytes, eof \in BOOLEAN : DatRead(n, eof)
    \/ DatFail
    \/ DatReturn

(***************************************************************************)
(* ParseXml (part_000:379-431).  decoder.Decode reads through lr and       *)
(* either fails or fills in the catalog, the hash fields holding the       *)
(* attribute text; fixHashes then turns them into raw bytes.               *)
(***************************************************************************)
XmlPath == "roms.xml"

\* the text of a hash attribute: absent, valid hex, hex followed by
\* characters that are not, and a single character that is not hex
HashTexts == {NilBytes, Bytes(<<"a", "1">>), Bytes(<<"1", "2", "z", "z">>),
              Bytes(<<"z">>)}

XmlRoms == [Name : {<<"r">>}, Size : {7}, Crc : HashTexts, Md5 : HashTexts,
            Sha1 : HashTexts]

GoodXmlRom == [Name |-> <<"r">>, Size |-> 7, Crc |-> Bytes(<<"a", "1">>),
               Md5 |-> NilBytes, Sha1 |-> Bytes(<<"0", "f">>)]

Kinds == {"Roms", "Disks", "Parts", "Regions"}

\* a decoded catalog: one game and one software entry, each with one rom,
\* disk, part and region; the entry of kind k under list l is e
XmlDat(l, k, e) ==
    [list \in {"Games", "Software"} |->
        <<[kind \in Kinds |-> <<IF list = l /\ kind = k THEN e ELSE GoodXmlRom>>]>>]

NoXmlDat == [list \in {"Games", "Software"} |-> <<>>]

\* the hex.DecodeString the build links
hexDecodeString(build, s) ==
    IF build = "go1.9" THEN DecodeStringGo19(s) ELSE DecodeString(s)

\* one hash field in fixHashes (part_000:356-362):
\*   v, err := hex.DecodeString(string(rom.Crc))
\*   if err != nil { rom.Crc = nil }
\*   rom.Crc = v
\* The last assignment is made whatever err was: the field ends as v.
fixHash(build, field) ==
    IF field.isNil THEN field
    ELSE hexDecodeString(build, field.bytes).val

\* fixHashes (part_000:355-377)
fixHashes(build, rom) ==
    [rom EXCEPT !.Crc = fixHash(build, rom.Crc),
                !.Md5 = fixHash(build, rom.Md5),
                !.Sha1 = fixHash(build, rom.Sha1)]

\* the loops of ParseXml over d.Games and d.Software (part_000:393-421)
fixAll(build, d) ==
    [list \in {"Games", "Software"} |->
        [g \in 1..Len(d[list]) |->
            [kind \in Kinds |->
                [k \in 1..Len(d[list][g][kind]) |->
                    fixHashes(build, d[list][g][kind][k])]]]]

\* fmt.Errorf("xml parsing error %d: %v", lr.line, err)
XmlError(line, err) ==
    [text |-> "xml parsing error %d: %v", path |-> <<>>, line |-> <<line>>,
     cause |-> err]

XmlIdle ==
    /\ xmlPc = "idle"
    /\ xmlBuild = "go1.10"
    /\ xmlDat = NoXmlDat
    /\ xmlIn = NoXmlDat
    /\ xmlOut = [isNil |-> TRUE, sha1 |-> <<>>, err |-> NoError]

InitXml ==
    /\ xmlPc = "decode"
    /\ xmlBuild \in {"go1.9", "go1.10"}
    /\ xmlDat = NoXmlDat
    /\ xmlIn = NoXmlDat
    /\ xmlOut = [isNil |-> TRUE, sha1 |-> <<>>, err |-> NoError]

\* decoder.Decode reads on
XmlRead(n, eof) ==
    /\ xmlPc = "decode"
    /\ Read(n, eof, TRUE)
    /\ UNCHANGED xmlVars
    /\ UNCHANGED exceptXml

\* err := decoder.Decode(d) failed:
\* return nil, nil, fmt.Errorf("xml parsing error %d: %v", lr.line, err)
XmlDecodeError ==
    /\ xmlPc = "decode"
    /\ xmlOut' = [isNil |-> TRUE, sha1 |-> <<>>, err |-> XmlError(lr.line, "syntax error")]
    /\ xmlPc' = "done"
    /\ UNCHANGED <<xmlBuild, xmlDat, xmlIn>>
    /\ UNCHANGED readVars
    /\ UNCHANGED exceptXml

\* decoder.Decode(d) returned nil, having read the document
XmlDecoded(l, k, e) ==
    /\ xmlPc = "decode"
    /\ srcGot # <<>>
    /\ xmlDat' = XmlDat(l, k, e)
    /\ xmlIn' = XmlDat(l, k, e)
    /\ xmlPc' = "fix"
    /\ UNCHANGED <<xmlBuild, xmlOut>>
    /\ UNCHANGED readVars
    /\ UNCHANGED exceptXml

\* the fixHashes loops, d.Normalize() and return d, hr.h.Sum(nil), nil
XmlReturn ==
    /\ xmlPc = "fix"
    /\ xmlDat' = Normalize(fixAll(xmlBuild, xmlDat))
    /\ xmlOut' = [isNil |-> FALSE, sha1 |-> Sum(hSum), err |-> NoError]
    /\ xmlPc' = "done"
    /\ UNCHANGED <<xmlBuild, xmlIn>>
    /\ UNCHANGED readVars
    /\ UNCHANGED exceptXml

XmlStep ==
    \/ \E n \in 0..MaxBytes, eof \in BOOLEAN : XmlRead(n, eof)
    \/ XmlDecodeError
    \/ \E l \in {"Games", "Software"}, k \in Kinds, e \in XmlRoms : XmlDecoded(l, k, e)
    \/ XmlReturn

(***************************************************************************)
(* stringValue2Bytes (part_000:74-86) on its own: the strings of up to     *)
(* MaxHexLen characters, hex digits and others, for the canonical lengths  *)
(* of HexLengths.                                                          *)
(***************************************************************************)
MaxHexLen == 4      \* characters of the input string

HexAlphabet == {"0", "1", "a", "B", "g", " ", "-"}

HexLengths == {4, 8}

HexInputs == UNION {[1..n -> HexAlphabet] : n \in 0..MaxHexLen}

HexIdle ==
    /\ hexIn = [input |-> <<>>, expectedLength |-> 8]
    /\ hexPc = "idle"
    /\ hexOut = [val |-> NilBytes, err |-> FALSE]

InitHex ==
    /\ hexIn \in [input : HexInputs, expectedLength : HexLengths]
    /\ hexPc = "call"
    /\ hexOut = [val |-> NilBytes, err |-> FALSE]

\* v, err := stringValue2Bytes(input, expectedLength)
HexCall ==
    /\ hexPc = "call"
    /\ hexOut' = stringValue2Bytes(hexIn.input, hexIn.expectedLength)
    /\ hexPc' = "done"
    /\ UNCHANGED hexIn
    /\ UNCHANGED exceptHex

HexStep == HexCall

(***************************************************************************)
(* The generation file (db.go:78-112).  int64 is modelled GenBits wide.    *)
(***************************************************************************)
GenBits  == 5      \* width of the size written to the generation file
MaxCalls == 3      \* calls on the generation file in one run

MinInt64 == 0 - 2 ^ (GenBits - 1)

MaxInt64 == 2 ^ (GenBits - 1) - 1

Int64 == MinInt64..MaxInt64

RECURSIVE DecimalDigits(_)
DecimalDigits(n) ==
    IF n < 10 THEN <<HexChars[n + 1]>>
    ELSE DecimalDigits(n \div 10) \o <<HexChars[(n % 10) + 1]>>

\* strconv.FormatInt(size, 10)
FormatInt(n) == IF n < 0 THEN <<"-">> \o DecimalDigits(0 - n) ELSE DecimalDigits(n)

\* strconv.ParseInt(s, 10, 64): an optional sign and decimal digits, within
\* the range of the type
ParseInt(s) ==
    LET signed == s # <<>> /\ s[1] \in {"+", "-"}
        neg    == signed /\ s[1] = "-"
        digits == IF signed THEN Tail(s) ELSE s
    IN  IF ~IsDigits(digits) THEN [val |-> 0, err |-> TRUE]
        ELSE IF ~neg /\ DecimalValue(digits) > MaxInt64
             THEN [val |-> MaxInt64, err |-> TRUE]
        ELSE IF neg /\ DecimalValue(digits) > 0 - MinInt64
             THEN [val |-> MinInt64, err |-> TRUE]
        ELSE [val |-> IF neg THEN 0 - DecimalValue(digits) ELSE DecimalValue(digits),
              err |-> FALSE]

\* a generation file that leaves out the sign
GenerationContentNoSign(sz) == FormatInt(IF sz < 0 THEN 0 - sz ELSE sz)

\* what WriteGenerationFile writes: bw.WriteString(strconv.FormatInt(size, 10))
GenerationContent(sz) == FormatInt(sz)

NoFile == [exists |-> FALSE, content |-> <<>>]

\* a call as the next call remembers it
Before(call) == [op |-> call.op, size |-> call.size, err |-> call.err,
                 created |-> call.created]

NoCall == [op |-> "none", size |-> 0, val |-> 0, err |-> "", created |-> FALSE,
           after |-> [op |-> "none", size |-> 0, err |-> "", created |-> FALSE]]

\* WriteGenerationFile (db.go:78-90): (file after the call, error); os.Create
\* fails if ~ok.  The buffered write and its Flush are taken to succeed:
\* their errors are not looked at.
WriteGenerationFile(file, sz, ok) ==
    IF ~ok THEN [file |-> file, err |-> "create failed"]
    ELSE [file |-> [exists |-> TRUE, content |-> GenerationContent(sz)],
          err |-> ""]

\* what ReadGenerationFile returns once the file is open:
\* strconv.ParseInt(string(bs), 10, 64) of its content
Parsed(file, p) ==
    [file |-> file, val |-> p.val, err |-> IF p.err THEN "invalid size" ELSE ""]

\* what ReadGenerationFile returns for a missing file, w being what
\* WriteGenerationFile(root, 0) returned
Created(w) == [file |-> w.file, val |-> 0, err |-> w.err]

\* ReadGenerationFile (db.go:92-112): os.Open fails for another reason than
\* a missing file if ~okOpen; os.Create of the missing file fails if ~okCreate
ReadGenerationFile(file, okOpen, okCreate) ==
    IF ~file.exists THEN Created(WriteGenerationFile(file, 0, okCreate))
    ELSE IF ~okOpen THEN [file |-> file, val |-> 0, err |-> "open failed"]
    ELSE Parsed(file, ParseInt(file.content))

GenIdle ==
    /\ genFile = NoFile
    /\ genLast = NoCall
    /\ genCalls = MaxCalls

\* a depot root whose generation file is missing or holds some size
InitGen ==
    /\ genFile \in {NoFile} \cup {[exists |-> TRUE, content |-> FormatInt(n)] : n \in Int64}
    /\ genLast = NoCall
    /\ genCalls = 0

\* err := WriteGenerationFile(root, size)
GenWrite(sz, ok) ==
    /\ genCalls < MaxCalls
    /\ genCalls' = genCalls + 1
    /\ genFile' = WriteGenerationFile(genFile, sz, ok).file
    /\ genLast' = [op |-> "write", size |-> sz, val |-> 0,
                   err |-> WriteGenerationFile(genFile, sz, ok).err,
                   created |-> FALSE, after |-> NoCall.after]
    /\ UNCHANGED exceptGen

\* size, err := ReadGenerationFile(root)
GenRead(okOpen, okCreate) ==
    /\ genCalls < MaxCalls
    /\ genCalls' = genCalls + 1
    /\ genFile' = ReadGenerationFile(genFile, okOpen, okCreate).file
    /\ genLast' = [op |-> "read", size |-> 0,
                   val |-> ReadGenerationFile(genFile, okOpen, okCreate).val,
                   err |-> ReadGenerationFile(genFile, okOpen, okCreate).err,
                   created |-> ~genFile.exists, after |-> Before(genLast)]
    /\ UNCHANGED exceptGen

GenStep ==
    \/ \E sz \in Int64, ok \in BOOLEAN : GenWrite(sz, ok)
    \/ \E okOpen, okCreate \in BOOLEAN : GenRead(okOpen, okCreate)

(***************************************************************************)
(* Parse and isXML (part_000:317-353).  A file is a few leading characters *)
(* followed by `fill' further bytes "x"; a handle is a file descriptor     *)
(* with its read position.                                                 *)
(***************************************************************************)
SniffLimit == 256      \* io.LimitedReader{R: file, N: 256}

XmlPrefix == <<"<", "?", "x", "m", "l">>

\* the leading characters of the files
Heads ==
    {<<>>, <<"<">>, <<"<", "?", "x", "m">>, XmlPrefix, XmlPrefix \o <<" ">>,
     <<" ">> \o XmlPrefix, <<"<", "?", "X", "M", "L">>, <<"<", "x", "m", "l", ">">>,
     <<"c", "l", "r", "m", "a", "m">>, <<"<", "?", "x", "m", "L", "l">>}

\* the bytes that follow them
Fills == {0, 250, 300}

ParsePaths == {<<"a", ".", "d", "a", "t">>, <<"a", ".", "x", "m", "l">>, <<"a">>}

\* the sizes of the reads the operating system serves
Chunks == {1, 5, 512}

FileLen(file) == Len(file.head) + file.fill

\* the first n bytes of the file
Take(file, n) ==
    [i \in 1..n |-> IF i <= Len(file.head) THEN file.head[i] ELSE "x"]

\* strings.HasPrefix
HasPrefix(s, prefix) ==
    Len(s) >= Len(prefix) /\ SubSeq(s, 1, Len(prefix)) = prefix

NoHandle == [open |-> FALSE, fd |-> 0, pos |-> 0, N |-> 0]

\* os.Open: a new descriptor, positioned at the first byte
Open(fd, limit) == [open |-> TRUE, fd |-> fd, pos |-> 0, N |-> limit]

\* file.Close
Close(h) == [h EXCEPT !.open = FALSE]

NoOut == [to |-> "none", err |-> "", first |-> 0 - 1]

ParseIdle ==
    /\ pfFile = [head |-> <<>>, fill |-> 0]
    /\ pfPath = <<>>
    /\ pfPc = "idle"
    /\ pfSniff = NoHandle
    /\ pfIsXML = FALSE
    /\ pfHandle = NoHandle
    /\ pfOut = NoOut

InitParse ==
    /\ \E head \in Heads, fill \in Fills : pfFile = [head |-> head, fill |-> fill]
    /\ pfPath \in ParsePaths
    /\ pfPc = "start"
    /\ pfSniff = NoHandle
    /\ pfIsXML = FALSE
    /\ pfHandle = NoHandle
    /\ pfOut = NoOut

\* isXML: file, err := os.Open(path); lr := io.LimitedReader{R: file, N: 256}
isXMLOpen(ok) ==
    /\ pfPc = "start"
    /\ IF ok
       THEN /\ pfSniff' = Open(1, SniffLimit)
            /\ pfPc' = "sniff"
            /\ UNCHANGED pfOut
       ELSE /\ pfOut' = [NoOut EXCEPT !.err = "open failed"]
            /\ pfPc' = "done"
            /\ UNCHANGED pfSniff
    /\ UNCHANGED <<pfFile, pfPath, pfIsXML, pfHandle>>
    /\ UNCHANGED exceptParse

\* the number of bytes one Read of the limited reader delivers when the
\* file would serve c: no more than N and no more than the file has left
Served(file, h, c) == Min({c, h.N, FileLen(file) - h.pos})

\* one Read of ioutil.ReadAll(&lr) that delivers bytes, or fails
isXMLRead(c, ok) ==
    /\ pfPc = "sniff"
    /\ Served(pfFile, pfSniff, c) > 0
    /\ IF ok
       THEN /\ pfSniff' = [pfSniff EXCEPT !.pos = @ + Served(pfFile, pfSniff, c),
                                          !.N = @ - Served(pfFile, pfSniff, c)]
            /\ UNCHANGED <<pfPc, pfOut>>
       ELSE /\ pfSniff' = Close(pfSniff)
            /\ pfOut' = [NoOut EXCEPT !.err = "read failed"]
            /\ pfPc' = "done"
    /\ UNCHANGED <<pfFile, pfPath, pfIsXML, pfHandle>>
    /\ UNCHANGED exceptParse

\* ReadAll meets io.EOF, from the limited reader (N = 0) or from the file:
\* return strings.HasPrefix(string(snippet), "<?xml"), nil; file.Close()
isXMLReturn ==
    /\ pfPc = "sniff"
    /\ Served(pfFile, pfSniff, 1) = 0
    /\ pfIsXML' = HasPrefix(Take(pfFile, pfSniff.pos), XmlPrefix)
    /\ pfSniff' = Close(pfSniff)
    /\ pfPc' = "open"
    /\ UNCHANGED <<pfFile, pfPath, pfHandle, pfOut>>
    /\ UNCHANGED exceptParse

\* a Parse that goes on with the handle isXML read from
ParseHandleShared(sniff) == [sniff EXCEPT !.open = TRUE, !.N = 0]

\* Parse: file, err := os.Open(path)
ParseHandle(sniff) == Open(sniff.fd + 1, 0)

ParseOpen(ok) ==
    /\ pfPc = "open"
    /\ IF ok
       THEN /\ pfHandle' = ParseHandle(pfSniff)
            /\ pfPc' = "dispatch"
            /\ UNCHANGED pfOut
       ELSE /\ pfOut' = [NoOut EXCEPT !.err = "open failed"]
            /\ pfPc' = "done"
            /\ UNCHANGED pfHandle
    /\ UNCHANGED <<pfFile, pfPath, pfSniff, pfIsXML>>
    /\ UNCHANGED exceptParse

\* if isXML { return ParseXml(file, path) }; return ParseDat(file, path)
Dispatch(xml) == IF xml THEN "xml" ELSE "text"

ParseDispatch ==
    /\ pfPc = "dispatch"
    /\ pfOut' = [pfOut EXCEPT !.to = Dispatch(pfIsXML)]
    /\ pfPc' = "parsing"
    /\ UNCHANGED <<pfFile, pfPath, pfSniff, pfIsXML, pfHandle>>
    /\ UNCHANGED exceptParse

\* the parser reads from the handle Parse gave it; first is the offset of
\* the first byte it got
ParserRead(c) ==
    /\ pfPc = "parsing"
    /\ pfHandle.pos < FileLen(pfFile)
    /\ pfHandle' = [pfHandle EXCEPT !.pos = Min({@ + c, FileLen(pfFile)})]
    /\ pfOut' = [pfOut EXCEPT !.first = IF @ < 0 THEN pfHandle.pos ELSE @]
    /\ UNCHANGED <<pfFile, pfPath, pfPc, pfSniff, pfIsXML>>
    /\ UNCHANGED exceptParse

\* the parser is at the end of the file and returns: defer file.Close()
ParseReturn ==
    /\ pfPc = "parsing"
    /\ pfHandle.pos = FileLen(pfFile)
    /\ pfHandle' = Close(pfHandle)
    /\ pfPc' = "done"
    /\ UNCHANGED <<pfFile, pfPath, pfSniff, pfIsXML, pfOut>>
    /\ UNCHANGED exceptParse

ParseStep ==
    \/ \E ok \in BOOLEAN : isXMLOpen(ok)
    \/ \E c \in Chunks, ok \in BOOLEAN : isXMLRead(c, ok)
    \/ isXMLReturn
    \/ \E ok \in BOOLEAN : ParseOpen(ok)
    \/ ParseDispatch
    \/ \E c \in Chunks : ParserRead(c)
    \/ ParseReturn

(***************************************************************************)
(* adjustSize and the size write of writeSizes, statement by statement     *)
(* (depot_root.go:84-123): what the shard's mutex has to make atomic.      *)
(* serial and plain follow the calls in the order they read the size.      *)
(***************************************************************************)
MaxTotal == 2      \* cap on a shard's size in these runs

NoSum == 0 - 1     \* a negative delta has been applied to the shard

ConcIdle ==
    /\ adjSum = [p \in Adjusters |-> 0]
    /\ serial = [r \in Roots |-> 0]
    /\ plain = [r \in Roots |-> 0]

\* the sum of the deltas applied so far, as long as none was negative
PlainAfter(s, delta) == IF s = NoSum \/ delta < 0 THEN NoSum ELSE s + delta

\* dr.size += delta, the read: the sum is formed from the size read
adjustSizeLoad(p, delta) ==
    LET r == adjRoot[p] IN
    /\ adjPc[p] = "locked"
    /\ size[r] + delta <= MaxTotal
    /\ serial[r] + delta <= MaxTotal
    /\ adjSum' = [adjSum EXCEPT ![p] = size[r] + delta]
    /\ serial' = [serial EXCEPT ![r] = Clamp(@ + delta)]
    /\ plain' = [plain EXCEPT ![r] = PlainAfter(@, delta)]
    /\ adjPc' = [adjPc EXCEPT ![p] = "add"]
    /\ UNCHANGED <<size, touched, bloomReady, bf, lock, sizeFile, bloomFile,
                   backupFile, wsPc, wsIdx, wsErrSize, wsErrBloom, wsDirty,
                   wsPre, wsRenamed, wsCount, wsFailed, adjRoot, adjClamped>>
    /\ UNCHANGED exceptConc

\* dr.size += delta, the write
adjustSizeStore(p) ==
    LET r == adjRoot[p] IN
    /\ adjPc[p] = "add"
    /\ size' = [size EXCEPT ![r] = adjSum[p]]
    /\ adjSum' = [adjSum EXCEPT ![p] = 0]
    /\ adjPc' = [adjPc EXCEPT ![p] = "clamp"]
    /\ UNCHANGED <<touched, bloomReady, bf, lock, sizeFile, bloomFile,
                   backupFile, wsPc, wsIdx, wsErrSize, wsErrBloom, wsDirty,
                   wsPre, wsRenamed, wsCount, wsFailed, adjRoot, adjClamped>>
    /\ UNCHANGED <<serial, plain>>
    /\ UNCHANGED exceptConc

\* if dr.size < 0 { dr.size = 0 }
adjustSizeClamp(p) ==
    LET r == adjRoot[p] IN
    /\ adjPc[p] = "clamp"
    /\ size' = [size EXCEPT ![r] = Clamp(@)]
    /\ adjClamped' = [adjClamped EXCEPT ![p] = (size[r] < 0)]
    /\ adjPc' = [adjPc EXCEPT ![p] = "bloom"]
    /\ UNCHANGED <<touched, bloomReady, bf, lock, sizeFile, bloomFile,
                   backupFile, wsPc, wsIdx, wsErrSize, wsErrBloom, wsDirty,
                   wsPre, wsRenamed, wsCount, wsFailed, adjRoot>>
    /\ UNCHANGED <<adjSum, serial, plain>>
    /\ UNCHANGED exceptConc

\* if sha1Hex != "" && dr.bloomReady { dr.bf.Add(...) }; dr.touched = true
adjustSizeTouch(p, id) ==
    LET r == adjRoot[p] IN
    /\ adjPc[p] = "bloom"
    /\ bf' = [bf EXCEPT ![r] = BloomAfter(r, id)]
    /\ touched' = [touched EXCEPT ![r] = TRUE]
    /\ adjPc' = [adjPc EXCEPT ![p] = "unlock"]
    /\ UNCHANGED <<size, bloomReady, lock, sizeFile, bloomFile,
                   backupFile, wsPc, wsIdx, wsErrSize, wsErrBloom, wsDirty,
                   wsPre, wsRenamed, wsCount, wsFailed, adjRoot, adjClamped>>
    /\ UNCHANGED <<adjSum, serial, plain>>
    /\ UNCHANGED exceptConc

\* err := writeSizeFile(dr.path, dr.size)
writeSizesWrite(ok, created) ==
    LET r == wsIdx IN
    /\ wsPc = "size"
    /\ sizeFile' = [sizeFile EXCEPT ![r] = writeSizeFile(r, ok, created)]
    /\ wsErrSize' = ~ok
    /\ wsPc' = "clear"
    /\ UNCHANGED <<size, touched, bloomReady, bf, lock, bloomFile, backupFile, wsIdx,
                   wsErrBloom, wsDirty, wsPre, wsRenamed, wsCount, wsFailed, adjVars>>
    /\ UNCHANGED <<adjSum, serial, plain>>
    /\ UNCHANGED exceptConc

\* if err != nil { log } else { dr.touched = false }
writeSizesClear ==
    LET r == wsIdx IN
    /\ wsPc = "clear"
    /\ touched' = [touched EXCEPT ![r] = TouchedAfterSize(r, ~wsErrSize)]
    /\ wsPc' = AfterSize(r)
    /\ UNCHANGED <<size, bloomReady, bf, lock, sizeFile, bloomFile, backupFile, wsIdx,
                   wsErrSize, wsErrBloom, wsDirty, wsPre, wsRenamed, wsCount, wsFailed,
                   adjVars>>
    /\ UNCHANGED <<adjSum, serial, plain>>
    /\ UNCHANGED exceptConc

ConcStep ==
    \/ \E p \in Adjusters, r \in Roots : adjustSizeLock(p, r)
    \/ \E p \in Adjusters, delta \in Deltas : adjustSizeLoad(p, delta)
    \/ \E p \in Adjusters : adjustSizeStore(p)
    \/ \E p \in Adjusters : adjustSizeClamp(p)
    \/ \E p \in Adjusters, id \in Ids : adjustSizeTouch(p, id)
    \/ \E p \in Adjusters : adjustSizeUnlock(p)
    \/ writeSizesStart
    \/ writeSizesLock
    \/ \E ok \in BOOLEAN, created \in BOOLEAN : writeSizesWrite(ok, created)
    \/ writeSizesClear
    \/ writeSizesUnlock

(***************************************************************************)
(* splitIntoArgs (part_001:39-109).  The argument line is a sequence of    *)
(* characters; a[k] of the model is a[k-1] of the code.                    *)
(***************************************************************************)
MaxArgLen == 5      \* characters of an argument line

ArgChars == {"a", " ", "=", "'", "\\"}

ArgLines == UNION {[1..n -> ArgChars] : n \in 0..MaxArgLen}

NoRune == ""        \* previousRne == 0

\* new(splitState), and the state the second pass starts from
NewSplitState == [inQuotedZone |-> FALSE, previousRne |-> NoRune]

\* a quote toggles the zone unless a backslash comes before it
ZoneAfter(st, rne) ==
    IF rne = "'" /\ st.previousRne # "\\" THEN ~st.inQuotedZone ELSE st.inQuotedZone

\* if rne == '=' && !st.inQuotedZone { rne = ' ' }
RuneAfter(zone, rne) == IF rne = "=" /\ ~zone THEN " " ELSE rne

\* what shouldSplit returns and leaves in st, given the zone and the rune
\* its first two statements leave
SplitResult(st, zone, rne) ==
    [st    |-> [inQuotedZone |-> zone, previousRne |-> rne],
     split |-> IsSpace(rne) /\ st.previousRne # "\\" /\ ~zone]

\* shouldSplit in which every quote toggles the zone
shouldSplitAnyQuote(st, rne) ==
    SplitResult(st, (IF rne = "'" THEN ~st.inQuotedZone ELSE st.inQuotedZone),
                RuneAfter((IF rne = "'" THEN ~st.inQuotedZone ELSE st.inQuotedZone), rne))

\* splitState.shouldSplit (part_001:44-65)
shouldSplit(st, rne) ==
    SplitResult(st, ZoneAfter(st, rne), RuneAfter(ZoneAfter(st, rne), rne))

\* one round of the first loop, s being what shouldSplit returned
Counted(c, s) ==
    [st |-> s.st, inField |-> ~s.split,
     n  |-> IF ~s.split /\ ~c.inField THEN c.n + 1 ELSE c.n]

\* the first loop (part_001:73-79): the number of fields
RECURSIVE CountFields(_, _, _)
CountFields(line, i, c) ==
    IF i > Len(line) THEN c
    ELSE CountFields(line, i + 1, Counted(c, shouldSplit(c.st, line[i])))

\* strings.Trim(s, "'")
Trim(s) ==
    LET keep == {k \in 1..Len(s) : s[k] # "'"} IN
    IF keep = {} THEN <<>>
    ELSE SubSeq(s, CHOOSE k \in keep : \A j \in keep : k <= j,
                   CHOOSE k \in keep : \A j \in keep : k >= j)

\* a[na] = strings.Trim(argLine[fieldStart:i], "'"); na++ -- an index
\* beyond the slice panics
Stored(f, line, i) ==
    IF f.na + 1 > Len(f.a)
    THEN [f EXCEPT !.panic = TRUE]
    ELSE [f EXCEPT !.a[f.na + 1] = Trim(SubSeq(line, f.fieldStart, i - 1)),
                   !.set = @ \cup {f.na + 1},
                   !.na = @ + 1,
                   !.fieldStart = 0]

\* one round of the second loop, s being what shouldSplit returned;
\* fieldStart 0 is the code's -1
Filled(f, line, i, s) ==
    IF f.panic THEN f
    ELSE IF s.split
         THEN (IF f.fieldStart > 0
               THEN [Stored(f, line, i) EXCEPT !.st = s.st]
               ELSE [f EXCEPT !.st = s.st])
         ELSE [f EXCEPT !.st = s.st,
                        !.fieldStart = IF f.fieldStart = 0 THEN i ELSE @]

\* the second loop (part_001:88-98)
RECURSIVE FillFields(_, _, _)
FillFields(line, i, f) ==
    IF i > Len(line) THEN f
    ELSE FillFields(line, i + 1, Filled(f, line, i, shouldSplit(f.st, line[i])))

\* the state the second loop starts in: a := make([]string, n), the split
\* state reset, na := 0, fieldStart := -1
FillStart(n) ==
    [st |-> NewSplitState, a |-> [k \in 1..n |-> <<>>], set |-> {}, na |-> 0,
     fieldStart |-> 0, panic |-> FALSE]

\* part_001:100-108: the last field, then the open quote
Finished(f, line) ==
    LET g == IF f.fieldStart > 0 /\ ~f.panic
             THEN [Stored(f, line, Len(line) + 1) EXCEPT !.na = f.na]
             ELSE f
    IN  IF g.panic THEN [a |-> <<>>, isNil |-> TRUE, err |-> FALSE, panic |-> TRUE,
                         set |-> g.set]
        ELSE IF g.st.inQuotedZone
             THEN [a |-> <<>>, isNil |-> TRUE, err |-> TRUE, panic |-> FALSE, set |-> g.set]
             ELSE [a |-> g.a, isNil |-> FALSE, err |-> FALSE, panic |-> FALSE, set |-> g.set]

\* the second half of splitIntoArgs, n being the count of the first
Filling(line, n) == Finished(FillFields(line, 1, FillStart(n)), line)

\* splitIntoArgs (part_001:67-109)
splitIntoArgs(line) ==
    Filling(line, CountFields(line, 1, [st |-> NewSplitState, inField |-> FALSE, n |-> 0]).n)

NoArgs == [a |-> <<>>, isNil |-> TRUE, err |-> FALSE, panic |-> FALSE, set |-> {}]

ArgIdle ==
    /\ argLine = <<>>
    /\ argPc = "idle"
    /\ argOut = NoArgs

InitArgs ==
    /\ argLine \in ArgLines
    /\ argPc = "input"
    /\ argOut = NoArgs

\* args, err := splitIntoArgs(argLine)
ArgCall ==
    /\ argPc = "input"
    /\ argOut' = splitIntoArgs(argLine)
    /\ argPc' = "done"
    /\ UNCHANGED argLine
    /\ UNCHANGED exceptArgs

ArgStep == ArgCall

(***************************************************************************)
(* Specifications                                                          *)
(***************************************************************************)
vars == <<depotVars, refreshVars, libVars>>

\* no parser or generation-file call is under way
InitLib ==
    TextIdle /\ ReadIdle /\ DatIdle /\ XmlIdle /\ HexIdle /\ GenIdle /\ ParseIdle /\ ArgIdle
    /\ ConcIdle

InitAll == InitDepot /\ InitRefresh /\ InitLib

NextDepot == DepotStep

NextRefresh == RefreshStep

SpecDepot == InitAll /\ [][NextDepot]_vars

SpecRefresh == InitAll /\ [][NextRefresh]_vars

\* the steps of adjustSize between dr.Lock() and its return
InsideAdjustSize(p) ==
    \/ \E delta \in Deltas, id \in Ids : adjustSize(p, delta, id)
    \/ adjustSizeUnlock(p)

\* the steps of writeSizes on a shard it has locked
InsideWriteSizes ==
    \/ \E ok \in BOOLEAN, created \in BOOLEAN : writeSizesSize(ok, created)
    \/ \E ok \in BOOLEAN : bfPathExists(ok)
    \/ \E ok \in BOOLEAN : bfRename(ok)
    \/ \E ok \in BOOLEAN : bfCreate(ok)
    \/ \E n \in 0..FilterBits : bfWriteTo(n)
    \/ writeSizesUnlock

\* fair scheduling: a goroutine that can take its next step does so in the
\* end, and writeSizes, waiting for a mutex that is free again and again,
\* gets it (sync.Mutex hands a starving waiter the lock).  Nobody has to
\* call adjustSize or writeSizes.
FairDepot ==
    /\ \A p \in Adjusters : WF_vars(InsideAdjustSize(p))
    /\ SF_vars(writeSizesLock)
    /\ WF_vars(InsideWriteSizes)

\* the first shard's filter is the ready one
StartLive == InitShards({1}) /\ InitRefresh /\ InitLib

LiveDepot == StartLive /\ [][NextDepot]_vars /\ FairDepot

NextText == TextStep

\* the depot and the refresh before their first step
InitRest == InitDepot /\ bloomReady[1] /\ InitRefresh

StartText ==
    InitRest /\ InitText /\ ReadIdle /\ DatIdle /\ XmlIdle /\ HexIdle /\ GenIdle
    /\ ParseIdle /\ ArgIdle /\ ConcIdle

SpecText == StartText /\ [][NextText]_vars

NextDat == DatStep

StartDat ==
    InitRest /\ TextIdle /\ InitRead /\ InitDat /\ XmlIdle /\ HexIdle /\ GenIdle
    /\ ParseIdle /\ ArgIdle /\ ConcIdle

SpecDat == StartDat /\ [][NextDat]_vars

NextXml == XmlStep

StartXml ==
    InitRest /\ TextIdle /\ InitRead /\ DatIdle /\ InitXml /\ HexIdle /\ GenIdle
    /\ ParseIdle /\ ArgIdle /\ ConcIdle

SpecXml == StartXml /\ [][NextXml]_vars

NextHex == HexStep

StartHex ==
    InitRest /\ TextIdle /\ ReadIdle /\ DatIdle /\ XmlIdle /\ InitHex /\ GenIdle
    /\ ParseIdle /\ ArgIdle /\ ConcIdle

SpecHex == StartHex /\ [][NextHex]_vars

NextGen == GenStep

StartGen ==
    InitRest /\ TextIdle /\ ReadIdle /\ DatIdle /\ XmlIdle /\ HexIdle /\ InitGen
    /\ ParseIdle /\ ArgIdle /\ ConcIdle

SpecGen == StartGen /\ [][NextGen]_vars

NextParse == ParseStep

StartParse ==
    InitRest /\ TextIdle /\ ReadIdle /\ DatIdle /\ XmlIdle /\ HexIdle /\ GenIdle
    /\ InitParse /\ ArgIdle /\ ConcIdle

SpecParse == StartParse /\ [][NextParse]_vars

NextArgs == ArgStep

StartArgs ==
    InitRest /\ TextIdle /\ ReadIdle /\ DatIdle /\ XmlIdle /\ HexIdle /\ GenIdle
    /\ ParseIdle /\ InitArgs /\ ConcIdle

SpecArgs == StartArgs /\ [][NextArgs]_vars

NextConc == ConcStep

\* no shard's filter is ready yet: writeSizes persists sizes only
StartConc ==
    InitShards({}) /\ InitRefresh /\ TextIdle /\ ReadIdle /\ DatIdle /\ XmlIdle /\ HexIdle /\ GenIdle
    /\ ParseIdle /\ ArgIdle /\ ConcIdle

SpecConc == StartConc /\ [][NextConc]_vars

(***************************************************************************)
(* Properties of the depot root accounting                                 *)
(***************************************************************************)
\* the adjuster p has run adjustSize's body on shard r and still holds its lock
Adjusted(p, r) == adjPc[p] = "unlock" /\ adjRoot[p] = r

\* writeSizes is about to release the lock of the shard it just handled
AtUnlock == wsPc = "unlock"

\* a restart would load the shard's filter from its primary file
PrimaryLoads(r) == bloomFile[r].exists /\ ~loadBloomFilter(r, EmptyFilter).err

\* at least one of the shard's two bloom files is a whole filter
SomeCompleteCopy(r) == PrimaryLoads(r) \/ Complete(backupFile[r])

\* C1: a shard's size is never negative, whatever adjustSize calls ran and
\* however they interleaved; a negative delta larger than the size leaves
\* the size at exactly 0.
C1_SizeFloor ==
    /\ \A r \in Roots : size[r] >= 0
    /\ \A p \in Adjusters : (adjPc[p] = "unlock" /\ adjClamped[p]) => size[adjRoot[p]] = 0

C1_Witness ==
    \E p \in Adjusters : adjPc[p] = "unlock" /\ adjClamped[p] /\ size[adjRoot[p]] = 0

\* C2: once one of the two bloom files of a shard is a complete filter, every
\* later step (failed writes, stops, retrying flushes included) leaves at
\* least one of the two files complete.
C2_AlwaysACompleteCopy ==
    [][\A r \in Roots : SomeCompleteCopy(r) => SomeCompleteCopy(r)']_vars

\* C3: when writeBloomFilterWithBackup has renamed the primary file and the
\* new filter is not completely written (the call failed, or stopped there),
\* the backup file holds exactly the bytes the primary held before the call.
AfterRenameBeforeWritten ==
    /\ wsRenamed
    /\ \/ wsPc \in {"create", "write"}
       \/ wsPc = "unlock" /\ wsErrBloom

C3_BackupHoldsOldBytes ==
    AfterRenameBeforeWritten => (wsPre.exists /\ backupFile[wsIdx] = wsPre)

C3_Witness ==
    /\ wsPc = "unlock" /\ wsErrBloom /\ wsRenamed
    /\ Complete(wsPre)
    /\ backupFile[wsIdx] = wsPre
    /\ ~Complete(bloomFile[wsIdx])

\* C4: a dirty shard whose size write or bloom write failed is dirty when
\* writeSizes releases its lock, and a call of writeSizes visits every
\* shard whatever failed on the earlier ones.
C4_FailureKeepsDirty ==
    /\ (AtUnlock /\ wsDirty /\ (wsErrSize \/ wsErrBloom)) => touched[wsIdx]
    /\ wsPc = "idle" => wsCount = NumRoots
    /\ wsPc # "idle" => (wsCount \in {wsIdx - 1, wsIdx} /\ wsFailed \subseteq 1..(wsIdx - 1))

C4_Witness ==
    /\ AtUnlock /\ wsIdx = NumRoots /\ wsCount = NumRoots
    /\ wsFailed # {}
    /\ \A r \in wsFailed : touched[r]
    /\ wsDirty /\ wsErrBloom /\ ~wsErrSize /\ touched[wsIdx]

\* C5: a clean shard's size file holds its in-memory size; a flush whose
\* writes all succeed leaves a dirty shard clean; adjustSize leaves the
\* shard dirty.
C5_CleanMeansPersisted ==
    /\ \A r \in Roots : ~touched[r] => sizeFile[r] = size[r]
    /\ (AtUnlock /\ wsDirty /\ ~wsErrSize /\ ~wsErrBloom) => ~touched[wsIdx]
    /\ \A p \in Adjusters : adjPc[p] = "unlock" => touched[adjRoot[p]]

C5_Witness ==
    /\ AtUnlock /\ wsDirty /\ ~wsErrSize /\ ~wsErrBloom
    /\ ~touched[wsIdx]
    /\ size[wsIdx] > 0
    /\ sizeFile[wsIdx] = size[wsIdx]
    /\ \E p \in Adjusters : adjPc[p] = "unlock" /\ touched[adjRoot[p]]

\* what every adjustSize call does to the size and the dirty flag
AppliesDelta(r, delta) ==
    /\ size'[r] = (IF size[r] + delta < 0 THEN 0 ELSE size[r] + delta)
    /\ touched'[r]

\* C6 as stated: on a not-ready shard adjustSize applies the delta, marks the
\* shard dirty and leaves the filter unchanged; on a ready shard the given
\* identifier is a member of the filter after the call.
C6_AsStated ==
    [][\A p \in Adjusters, delta \in Deltas, id \in Ids :
          adjustSize(p, delta, id) =>
              /\ ~bloomReady[adjRoot[p]] =>
                     (AppliesDelta(adjRoot[p], delta) /\ bf'[adjRoot[p]] = bf[adjRoot[p]])
              /\ bloomReady[adjRoot[p]] => Test(bf'[adjRoot[p]], id)]_vars

\* C6 amended: as stated, except that on a ready shard only a non-empty
\* identifier is recorded; the empty identifier leaves the filter unchanged
\* (size and dirty flag are updated all the same).
C6_Amended ==
    [][\A p \in Adjusters, delta \in Deltas, id \in Ids :
          adjustSize(p, delta, id) =>
              /\ AppliesDelta(adjRoot[p], delta)
              /\ ~bloomReady[adjRoot[p]] => bf'[adjRoot[p]] = bf[adjRoot[p]]
              /\ (bloomReady[adjRoot[p]] /\ id # EmptyId) => Test(bf'[adjRoot[p]], id)
              /\ (bloomReady[adjRoot[p]] /\ id = EmptyId) =>
                     bf'[adjRoot[p]] = bf[adjRoot[p]]]_vars

C6_Witness ==
    \E p, q \in Adjusters :
        /\ adjPc[p] = "unlock" /\ ~bloomReady[adjRoot[p]]
        /\ size[adjRoot[p]] > 0 /\ touched[adjRoot[p]]
        /\ bf[adjRoot[p]] = EmptyFilter
        /\ adjPc[q] = "unlock" /\ bloomReady[adjRoot[q]]
        /\ \E id \in Ids \ {EmptyId} : Test(bf[adjRoot[q]], id)

(***************************************************************************)
(* Properties of the refresh pipeline                                      *)
(***************************************************************************)
\* the worker is inside Process
InProcess(w) == wPc[w] \in {"check", "flush", "parse", "index", "ret"}

\* the event e has happened in the worker's current Process call
InTrace(w, e) == \E i \in 1..Len(wTrace[w]) : wTrace[w][i] = e

\* something of the run that must come after OrphanDats has happened
RunActivity ==
    \/ nBatches > 0
    \/ everParsed
    \/ everIndexed
    \/ dbFlushes > 0
    \/ committed > 0
    \/ \E w \in Workers : wPc[w] # "none"

\* C7: OrphanDats has completed successfully before any batch is started,
\* any file parsed, any IndexDat issued or the index flushed; when OrphanDats
\* fails Refresh returns the error and none of these ever happens.
C7_OrphanDatsFirst ==
    /\ RunActivity => orphan = "ok"
    /\ orphan = "none" => rfPc = "start"
    /\ orphan = "err" => (rfPc = "done" /\ rfResult = "error" /\ ~RunActivity)

C7_Witness ==
    orphan = "err" /\ rfPc = "done" /\ rfResult = "error" /\ ~RunActivity

\* C8: a file that finds its batch at or above MaxBatchSize is parsed and
\* indexed only after a flush of that batch; the flush leaves the batch open
\* and the worker on the same batch; every IndexDat is issued on a batch
\* whose size is below MaxBatchSize.
C8_FlushBeforeFile ==
    \A w \in Workers :
        /\ (wStartSize[w] >= MaxBatchSize /\ wPc[w] \in {"parse", "index", "ret"}) =>
               (Len(wTrace[w]) >= 1 /\ wTrace[w][1] \in {"flush", "flushErr"})
        /\ (wStartSize[w] >= MaxBatchSize /\ (InTrace(w, "parse") \/ InTrace(w, "parseErr")
                                               \/ InTrace(w, "index") \/ InTrace(w, "indexErr"))) =>
               wTrace[w][1] = "flush"
        /\ (InTrace(w, "index") \/ InTrace(w, "indexErr")) => wIndexSize[w] < MaxBatchSize
        /\ InProcess(w) => (romBatch[w] = w /\ batchOpen[romBatch[w]])

C8_Witness ==
    \E w \in Workers :
        /\ wStartSize[w] >= MaxBatchSize
        /\ wTrace[w] = <<"flush", "parse", "index">>
        /\ wIndexSize[w] = 0
        /\ romBatch[w] = w /\ batchOpen[w]

\* C9: a failed Flush, Parse or IndexDat ends Process for that file with an
\* error returned to the walk: after a failed Flush the file is neither
\* parsed nor indexed, after a failed Parse IndexDat is not called; the
\* batch stays open and nothing committed before is undone.
C9_ProcessFailure ==
    \A w \in Workers :
        /\ InTrace(w, "flushErr") => wTrace[w] = <<"flushErr">>
        /\ InTrace(w, "parseErr") => (~InTrace(w, "index") /\ ~InTrace(w, "indexErr"))
        /\ (InTrace(w, "flushErr") \/ InTrace(w, "parseErr") \/ InTrace(w, "indexErr")) =>
               /\ wPc[w] = "ret"
               /\ wRet[w] # "nil"
               /\ romBatch[w] # NoBatch
               /\ batchOpen[romBatch[w]]
               /\ committed >= wStartCommitted[w]

C9_Witness ==
    \E w \in Workers :
        /\ wPc[w] = "ret"
        /\ wTrace[w] = <<"flush", "parseErr">>
        /\ wRet[w] # "nil"
        /\ committed > 0
        /\ batchOpen[romBatch[w]]

\* every worker has closed its batch
AllClosed == \A w \in Workers : wPc[w] = "closed" /\ romBatch[w] = NoBatch

\* C10 as stated: the global flush happens exactly once in every refresh
\* run, after the walk ended and all workers closed their batches (cancelled
\* walks included), and no IndexDat follows it.
C10_AsStated ==
    /\ dbFlushes <= 1
    /\ rfPc = "done" => dbFlushes = 1
    /\ dbFlushes = 1 => (rfPc = "done" /\ AllClosed)
    /\ ~lateIndex

\* C10 amended: the same for every run whose OrphanDats succeeded; a run
\* whose OrphanDats failed returns before the walk and never flushes.
C10_Amended ==
    /\ dbFlushes <= 1
    /\ (rfPc = "done" /\ orphan = "ok") => dbFlushes = 1
    /\ (rfPc = "done" /\ orphan = "err") => dbFlushes = 0
    /\ dbFlushes = 1 => (rfPc = "done" /\ AllClosed)
    /\ ~lateIndex

C10_Witness ==
    /\ rfPc = "done" /\ orphan = "ok"
    /\ cancelled /\ filesLeft > 0
    /\ everIndexed
    /\ AllClosed
    /\ dbFlushes = 1

\* C11: every worker holds the batch its own StartBatch call returned (the
\* w-th worker the w-th batch), no two workers hold the same batch, every
\* call on a batch (Size, Flush, IndexDat, Close) comes from its owner, and
\* a batch is closed at most once, by its owner's Close; when the run is
\* done every started batch has been closed exactly once.
C11_OwnBatch ==
    /\ \A w \in Workers : romBatch[w] # NoBatch => romBatch[w] = w
    /\ \A w, v \in Workers :
           (w # v /\ romBatch[w] # NoBatch) => romBatch[w] # romBatch[v]
    /\ \A b \in Workers : batchUsers[b] \subseteq {b}
    /\ \A b \in Workers : batchCloses[b] = (IF wPc[b] = "closed" THEN 1 ELSE 0)
    /\ rfPc = "done" => \A b \in 1..nBatches : batchCloses[b] = 1

C11_Witness ==
    /\ rfPc = "done"
    /\ nBatches = NumWorkers
    /\ \A b \in Workers : batchUsers[b] = {b} /\ batchCloses[b] = 1
    /\ everIndexed
    /\ committed > 0

\* the path ends with the characters of suffix
EndsWith(path, suffix) ==
    /\ Len(path) >= Len(suffix)
    /\ SubSeq(path, Len(path) - Len(suffix) + 1, Len(path)) = suffix

\* C22: the walk hands a path to a worker exactly when the path ends in
\* ".dat" or ".xml"; every other path it passes over.
C22_AdmitsDatAndXmlOnly ==
    lastWalk.path # NoPath =>
        (lastWalk.handed <=>
            \/ EndsWith(lastWalk.path, <<".", "d", "a", "t">>)
            \/ EndsWith(lastWalk.path, <<".", "x", "m", "l">>))

C22_Witness ==
    /\ lastWalk = [path |-> <<"a", ".", "D", "A", "T">>, handed |-> FALSE]
    /\ \E w \in Workers : wTrace[w] # <<>>

\* writeSizes holds the lock of shard r, which it found clean
HandlingClean(r) == lock[r] = WS /\ wsIdx = r /\ ~wsDirty

\* C24: while writeSizes handles a shard it found clean, no step changes
\* the shard's size file, bloom-filter file or backup, nor its size, its
\* filter or its flags, whether its filter is ready or not.
C24_CleanShardUntouched ==
    [][\A r \in Roots :
          (HandlingClean(r) \/ (HandlingClean(r))') =>
              /\ sizeFile'[r] = sizeFile[r]
              /\ bloomFile'[r] = bloomFile[r]
              /\ backupFile'[r] = backupFile[r]
              /\ size'[r] = size[r]
              /\ bf'[r] = bf[r]
              /\ touched'[r] = touched[r]
              /\ bloomReady'[r] = bloomReady[r]]_vars

\* writeSizes is done with a clean shard whose filter is ready and was
\* persisted by an earlier call
C24_Witness ==
    /\ wsPc = "unlock"
    /\ HandlingClean(wsIdx)
    /\ bloomReady[wsIdx]
    /\ bloomFile[wsIdx].exists
    /\ backupFile[wsIdx].exists
    /\ size[wsIdx] > 0

\* no goroutine is between locking and unlocking shard r
Quiet(r) ==
    /\ \A p \in Adjusters : adjPc[p] # "idle" => adjRoot[p] # r
    /\ wsPc \in {"idle", "lock"} \/ wsIdx # r

\* C25: whenever no call is at work on a shard, its size is what the calls
\* made so far yield one after the other, in the order they took the lock:
\* the plain sum of the deltas when none was negative; and a shard whose
\* size differs from its size file is dirty.
C25_Serializable ==
    \A r \in Roots :
        Quiet(r) =>
            /\ size[r] = serial[r]
            /\ plain[r] # NoSum => size[r] = plain[r]
            /\ size[r] # sizeFile[r] => touched[r]

\* two calls have added to a shard, the first persisted, the second not
C25_Witness ==
    \E r \in Roots :
        /\ Quiet(r)
        /\ plain[r] = 2
        /\ size[r] = 2
        /\ sizeFile[r] = 1
        /\ touched[r]
        /\ \E p \in Adjusters : adjPc[p] # "idle"

\* the shards whose mutex goroutine g holds
Held(g) == {r \in Roots : lock[r] = g}

\* a goroutine holds one mutex at most, that of the shard it works on, and
\* none outside a call
LockDiscipline ==
    /\ \A p \in Adjusters :
          Held(p) = IF adjPc[p] = "idle" THEN {} ELSE {adjRoot[p]}
    /\ Held(WS) = IF wsPc \in {"idle", "lock"} THEN {} ELSE {wsIdx}

\* a goroutine waits for the mutex of its own shard only, and the holder
\* of a mutex can always go on
NeverBlockedByAnotherShard ==
    /\ \A p \in Adjusters, r \in Roots :
          (adjPc[p] = "idle" /\ lock[r] = NoOwner) => ENABLED adjustSizeLock(p, r)
    /\ (wsPc = "lock" /\ lock[wsIdx] = NoOwner) => ENABLED writeSizesLock
    /\ \A p \in Adjusters :
          /\ adjPc[p] = "locked" => ENABLED (\E delta \in Deltas, id \in Ids : adjustSize(p, delta, id))
          /\ adjPc[p] = "unlock" => ENABLED adjustSizeUnlock(p)
    /\ wsPc \notin {"idle", "lock"} => ENABLED NextDepot

\* C26: writeSizes and adjustSize hold one shard mutex at a time and have
\* released it when they return, whatever failed; no call waits for the
\* mutex of another shard; and under fair scheduling every call returns:
\* no goroutine stays inside a call for ever.
C26_LocksReleased ==
    /\ [](LockDiscipline /\ NeverBlockedByAnotherShard)
    /\ \A p \in Adjusters : []<>(adjPc[p] = "idle")
    /\ []<>(wsPc = "idle")

\* writeSizes is about to unlock a shard whose filter it failed to write,
\* while an adjuster holds the other shard's mutex
C26_Witness ==
    /\ wsPc = "unlock"
    /\ wsErrBloom
    /\ lock[wsIdx] = WS
    /\ \E p \in Adjusters : adjPc[p] = "locked" /\ adjRoot[p] # wsIdx

(***************************************************************************)
(* Properties of the text parser                                           *)
(***************************************************************************)
\* the canonical hex length of a hash field
HashLength(typ) == IF typ = itemCrc THEN 8 ELSE IF typ = itemMd5 THEN 32 ELSE 40

\* the fields of a rom statement's body (keyword at 2k-1, value at 2k) whose
\* value is malformed hex, or no integer
BadHashFields(body) ==
    {k \in 1..(Len(body) \div 2) :
        /\ body[2 * k - 1].typ \in {itemCrc, itemMd5, itemSha1}
        /\ stringValue2Bytes(ItemString(body[2 * k]), HashLength(body[2 * k - 1].typ)).err}

BadSizeFields(body) ==
    {k \in 1..(Len(body) \div 2) :
        /\ body[2 * k - 1].typ = itemSize
        /\ ItemString(body[2 * k]) # <<"-">>
        /\ Atoi(ItemString(body[2 * k])).err}

BadHash(body) == BadHashFields(body) # {}

BadSize(body) == BadSizeFields(body) # {}

\* the rom a well-formed rom statement stands for
RomOf(body) == romStmt(<<OpenBrace>> \o body \o <<CloseBrace, EOF>>, 1).val

\* the roms the game statement g of the document should yield: those of
\* its rom statements that have no malformed hash, in order
RECURSIVE KeptRoms(_, _, _)
KeptRoms(src, g, k) ==
    IF k > Len(src.roms) THEN <<>>
    ELSE (IF src.gameOf[k] = g /\ ~BadHash(src.roms[k])
          THEN <<RomOf(src.roms[k])>> ELSE <<>>) \o KeptRoms(src, g, k + 1)

\* ParseDat has returned for a whole document
ParsedWhole == textPc = "done" /\ textSrc.defect = NoDefect

Succeeded == ~textOut.isNil /\ textOut.err = NoError

Failed == textOut.isNil /\ textOut.err # NoError

\* C12: when a rom statement of a text document has a crc, md5 or sha1
\* that is not valid hex, the parse succeeds and every game holds all its
\* other roms, those before and those after the malformed one.
C12_OnlyMalformedRomDropped ==
    (/\ ParsedWhole
     /\ \E k \in 1..Len(textSrc.roms) : BadHash(textSrc.roms[k])
     /\ \A k \in 1..Len(textSrc.roms) : ~BadSize(textSrc.roms[k]))
    => /\ Succeeded
       /\ Len(textOut.dat.Games) = textSrc.games
       /\ \A g \in 1..textSrc.games :
             textOut.dat.Games[g].Roms = KeptRoms(textSrc, g, 1)

\* the rom statement k has a size that is no integer, before any malformed
\* hash of its own, and no earlier rom statement of its game has a
\* malformed hash: romStmt gets to that size
ReachesBadSize(src, k) ==
    /\ BadSize(src.roms[k])
    /\ \A f \in BadHashFields(src.roms[k]) : f > Min(BadSizeFields(src.roms[k]))
    /\ \A j \in 1..(k - 1) : src.gameOf[j] = src.gameOf[k] => ~BadHash(src.roms[j])

\* C13 as stated: a size that is no integer (and not "-") costs the
\* document that rom only; ParseDat returns a catalog with the others.
C13_AsStated ==
    (/\ ParsedWhole
     /\ \E k \in 1..Len(textSrc.roms) : BadSize(textSrc.roms[k]))
    => Succeeded

\* C13 amended: a size that is no integer, once romStmt gets to it, fails
\* the whole parse: ParseDat returns an error naming file and line, and no
\* catalog.
C13_Amended ==
    (/\ ParsedWhole
     /\ \E k \in 1..Len(textSrc.roms) : ReachesBadSize(textSrc, k))
    => /\ Failed
       /\ textOut.err.cause = "invalid syntax"
       /\ textOut.err.path = <<TextPath>>
       /\ textOut.err.line # <<>>

C13_Witness ==
    /\ ParsedWhole
    /\ textSrc.games = 2
    /\ textSrc.roms = <<RomGood, RomBadSize, RomPlain>>
    /\ textSrc.gameOf = <<1, 1, 2>>
    /\ Failed

\* the number of statements open before position `at' of the document
Depth(all, at) ==
    Cardinality({b \in 1..(at - 1) : all[b] = OpenBrace})
    - Cardinality({b \in 1..(at - 1) : all[b] = CloseBrace})

\* C18: a statement whose keyword is not followed by an opening brace, and
\* a statement that the end of input or a lexical error cuts short before
\* its closing brace, make ParseDat return an error and no catalog; a
\* well-formed document ending at top level parses.
C18_GrammarErrors ==
    textPc = "done" =>
        /\ textSrc.defect.kind = "nobrace" => Failed
        /\ (/\ textSrc.defect.kind \in {"eof", "error"}
            /\ Depth(DocItems(textSrc), textSrc.defect.at) > 0) => Failed
        /\ (/\ textSrc.defect = NoDefect
            /\ \A k \in 1..Len(textSrc.roms) :
                  ~BadSize(textSrc.roms[k]) /\ ~BadHash(textSrc.roms[k])) => Succeeded

\* C23: when a rom statement is dropped for a malformed hash, every game
\* of the catalog has the name its own name field gives and, having no
\* description field, no description: nothing of the dropped rom statement
\* becomes a field of the game.
C23_DroppedRomLeavesGame ==
    (/\ ParsedWhole
     /\ Succeeded
     /\ \E k \in 1..Len(textSrc.roms) : BadHash(textSrc.roms[k]))
    => /\ Len(textOut.dat.Games) = textSrc.games
       /\ \A g \in 1..textSrc.games :
             /\ textOut.dat.Games[g].Name = <<"g", HexChars[g + 1]>>
             /\ textOut.dat.Games[g].Description = <<>>

(***************************************************************************)
(* Properties of the readers and of ParseXml                               *)
(***************************************************************************)
\* ParseXml has returned the catalog
XmlReturned == xmlPc = "done" /\ ~xmlOut.isNil

\* what the hash field should be after ParseXml: nil if its text was
\* absent or is not valid hex, else the bytes the text stands for
FixedHash(field) ==
    IF field.isNil \/ Decode(field.bytes).err THEN NilBytes
    ELSE Bytes(Decode(field.bytes).bytes)

\* C14: after ParseXml every rom, disk, part and region under the games
\* and the software is still there, with its name and size as decoded, a
\* hash field whose text was not valid hex nil and a valid one decoded;
\* ParseXml returned no error.
C14_InvalidHexIsNil ==
    XmlReturned =>
        /\ xmlOut.err = NoError
        /\ \A list \in {"Games", "Software"} :
              /\ Len(xmlDat[list]) = Len(xmlIn[list])
              /\ \A g \in 1..Len(xmlIn[list]), kind \in Kinds :
                    /\ Len(xmlDat[list][g][kind]) = Len(xmlIn[list][g][kind])
                    /\ \A k \in 1..Len(xmlIn[list][g][kind]) :
                          LET was == xmlIn[list][g][kind][k]
                              is  == xmlDat[list][g][kind][k]
                          IN  /\ is.Name = was.Name
                              /\ is.Size = was.Size
                              /\ is.Crc = FixedHash(was.Crc)
                              /\ is.Md5 = FixedHash(was.Md5)
                              /\ is.Sha1 = FixedHash(was.Sha1)

\* C15: the digest ParseDat returns is the hash of exactly the bytes the
\* source delivered, however it split them into Reads, a last Read that
\* hands over bytes together with the end of the stream included.
C15_DigestOfAllBytes ==
    (datPc = "done" /\ ~datOut.isNil) => datOut.sha1 = Sum(srcGot)

\* C16: the line number in ParseXml's error for a failed decode is the
\* number of newline bytes read through the line-counting reader.
C16_LineOfFailure ==
    (xmlPc = "done" /\ xmlOut.isNil) => xmlOut.err.line = <<Newlines(srcGot)>>

\* C17: an error returned for malformed input names the file path and a
\* line number.
C17_ErrorNamesPathAndLine ==
    (xmlPc = "done" /\ xmlOut.isNil) =>
        /\ xmlOut.err.path = <<XmlPath>>
        /\ xmlOut.err.line # <<>>

(***************************************************************************)
(* Properties of stringValue2Bytes and of the generation file              *)
(***************************************************************************)
IsHex(s) == \A k \in 1..Len(s) : fromHexChar(s[k]) < 16

\* s left-padded with "0" to n characters
LeftPad(s, n) == IF Len(s) < n THEN Repeat("0", n - Len(s)) \o s ELSE s

\* the bytes an even number of hex digits stands for
HexBytes(s) ==
    [k \in 1..(Len(s) \div 2) |-> fromHexChar(s[2 * k - 1]) * 16 + fromHexChar(s[2 * k])]

\* stringValue2Bytes returned the bytes of s padded to n characters
DecodedAs(s, n) == hexOut = [val |-> Bytes(HexBytes(LeftPad(s, n))), err |-> FALSE]

\* C19 as stated: nil and no error for "-" and ""; the left-padded bytes
\* for hex shorter than expectedLength; the bytes for hex of exactly
\* expectedLength; an error for input with a character that is not hex.
C19_AsStated ==
    hexPc = "done" =>
        LET in == hexIn.input
            n  == hexIn.expectedLength
        IN  /\ (in = <<"-">> \/ in = <<>>) => hexOut = [val |-> NilBytes, err |-> FALSE]
            /\ (in # <<>> /\ IsHex(in) /\ Len(in) <= n) => DecodedAs(in, n)
            /\ (in # <<"-">> /\ ~IsHex(in)) => hexOut.err

\* C19 amended: the same of the input without its leading and trailing
\* white space, which is trimmed before padding and is no error.
C19_Amended ==
    hexPc = "done" =>
        LET in == hexIn.input
            n  == hexIn.expectedLength
            t  == TrimSpace(hexIn.input)
        IN  /\ (in = <<"-">> \/ in = <<>>) => hexOut = [val |-> NilBytes, err |-> FALSE]
            /\ (in # <<>> /\ IsHex(t) /\ Len(t) <= n) => DecodedAs(t, n)
            /\ (in # <<"-">> /\ ~IsHex(t)) => hexOut.err

C19_Witness ==
    /\ hexPc = "done"
    /\ hexIn = [input |-> <<" ", "1", "a", " ">>, expectedLength |-> 8]
    /\ hexOut = [val |-> Bytes(<<0, 0, 0, 26>>), err |-> FALSE]

\* C20: ReadGenerationFile of a missing file creates it holding 0 and
\* returns 0, and so does the read after it; a read that follows
\* WriteGenerationFile(root, n) returns n, for every n of the type.
C20_GenerationRoundTrip ==
    /\ (genLast.op = "read" /\ genLast.created /\ genLast.err = "") =>
           /\ genLast.val = 0
           /\ genFile = [exists |-> TRUE, content |-> <<"0">>]
    /\ (/\ genLast.op = "read" /\ genLast.err # "open failed"
        /\ genLast.after.op = "read" /\ genLast.after.created
        /\ genLast.after.err = "") =>
           genLast.err = "" /\ genLast.val = 0
    /\ (/\ genLast.op = "read" /\ genLast.err # "open failed"
        /\ genLast.after.op = "write" /\ genLast.after.err = "") =>
           genLast.err = "" /\ genLast.val = genLast.after.size

C20_Witness ==
    /\ genLast.op = "read"
    /\ genLast.after.op = "write"
    /\ genLast.after.size = MinInt64
    /\ genLast.err = ""
    /\ genLast.val = MinInt64
    /\ genFile.content = <<"-", "1", "6">>

(***************************************************************************)
(* Properties of Parse                                                     *)
(***************************************************************************)
\* the file begins with the XML declaration prefix
BeginsWithXml(file) ==
    /\ FileLen(file) >= 5
    /\ \A i \in 1..5 : Take(file, 5)[i] = XmlPrefix[i]

\* C21: Parse goes to the XML parser exactly when the file begins with
\* "<?xml", whatever its path, and to the text parser otherwise; isXML
\* reads no more than the first 256 bytes; the parser reads through a
\* handle of its own, from the first byte of the file.
C21_DispatchOnLeadingBytes ==
    /\ pfSniff.pos <= SniffLimit
    /\ pfOut.to # "none" =>
          /\ pfOut.to = "xml" <=> BeginsWithXml(pfFile)
          /\ pfOut.to = "text" <=> ~BeginsWithXml(pfFile)
          /\ pfHandle.fd # pfSniff.fd
          /\ ~pfSniff.open
          /\ pfOut.first \in {0 - 1, 0}
          /\ pfPc = "done" /\ FileLen(pfFile) > 0 => pfOut.first = 0

C21_Witness ==
    /\ pfPc = "done"
    /\ pfFile = [head |-> XmlPrefix \o <<" ">>, fill |-> 300]
    /\ pfPath = <<"a", ".", "d", "a", "t">>
    /\ pfSniff.pos = SniffLimit
    /\ pfOut = [to |-> "xml", err |-> "", first |-> 0]

(***************************************************************************)
(* Properties of splitIntoArgs                                             *)
(***************************************************************************)
\* the quotes of the line that no backslash precedes
FreeQuotes(line) ==
    {i \in 1..Len(line) : line[i] = "'" /\ (i = 1 \/ line[i - 1] # "\\")}

\* position i is inside a quoted zone, an opening quote included
InZone(line, i) == Cardinality({q \in FreeQuotes(line) : q <= i}) % 2 = 1

\* the positions that end a field: white space or "=", outside a quoted
\* zone, not after a backslash
Splits(line) ==
    {i \in 1..Len(line) :
        /\ IsSpace(line[i]) \/ line[i] = "="
        /\ ~InZone(line, i)
        /\ i = 1 \/ line[i - 1] # "\\"}

\* the positions where a field begins, and where the field from i ends
Starts(line) ==
    {i \in 1..Len(line) : i \notin Splits(line) /\ (i = 1 \/ i - 1 \in Splits(line))}

EndOf(line, i) ==
    LET later == {j \in Splits(line) : j > i} IN
    IF later = {} THEN Len(line) ELSE (CHOOSE j \in later : \A k \in later : j <= k) - 1

\* the k-th smallest element of a set of numbers
RECURSIVE Nth(_, _)
Nth(S, k) ==
    LET least == CHOOSE x \in S : \A y \in S : x <= y IN
    IF k = 1 THEN least ELSE Nth(S \ {least}, k - 1)

\* the fields of the line, each without the quotes around it
Fields(line) ==
    [k \in 1..Cardinality(Starts(line)) |->
        Trim(SubSeq(line, Nth(Starts(line), k), EndOf(line, Nth(Starts(line), k))))]

\* C27: splitIntoArgs fails exactly when the line has an odd number of
\* quotes that no backslash precedes; otherwise it returns the fields that
\* white space and "=" outside quoted zones and not after a backslash
\* delimit, every slot of the slice assigned; no index is out of range.
C27_SplitIntoArgs ==
    argPc = "done" =>
        /\ ~argOut.panic
        /\ argOut.err <=> Cardinality(FreeQuotes(argLine)) % 2 = 1
        /\ ~argOut.err =>
              /\ ~argOut.isNil
              /\ argOut.set = 1..Len(argOut.a)
              /\ argOut.a = Fields(argLine)

C27_Witness ==
    /\ argPc = "done"
    /\ argLine = <<"a", "=", "'", " ", "'">>
    /\ argOut.a = <<<<"a">>, <<" ">>>>
    /\ ~argOut.err

====
